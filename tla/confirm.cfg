SPECIFICATION Spec
CONSTANTS
    m1 = m1
    m2 = m2
    w1 = w1
    w2 = w2
    asker = asker
    owner = owner
    title = title
    NoneOfThese = NoneOfThese
    Replies = {m1, m2}
    Workers = {w1, w2}
    Users = {asker, owner}
    Requester = asker
    Owner = owner
    Options = {1}
    Tokens <- AnyToken
    MaxPrompts = 2
    MaxRestarts = 1
    PostOutlastsTTL = FALSE
SYMMETRY Symmetric
INVARIANTS
    PromptSound
    ChoiceIsObeyed
    AcquiredIsNotOffered
PROPERTIES
    RepliesAreNotRequests
CHECK_DEADLOCK FALSE
