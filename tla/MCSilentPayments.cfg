CONSTANTS
    N = 10007
    OddPoints <- MCOddPoints
    InputHash <- MCInputHash
    OutputTweak <- MCOutputTweak
    GROUP_LIMIT = 2
    LABEL_BATCH_SIZE = 2
    InputKeys <- MCInputKeys
    RecipientLists <- MCRecipientLists
    Wallets <- MCWallets
    ForeignKey = 4007
    MaxRecipients = 3
    MaxElements = 6
    Values = {0, 1, 2}
SPECIFICATION MCSpec
INVARIANTS OutputsInOrder FindsEveryPayment FoundIsSpendable
CHECK_DEADLOCK FALSE
