SPECIFICATION Spec
CONSTANTS
    Titles <- MCTitles
    Npcs <- MCNpcs
    Names <- MCNames
    Pages <- MCPages
    DEFAULT_LIMIT = 3
    FIND_ITEMS_CAP = 1
    TRADE_NAME_CAP = 1
    Tokens = {"{", "}", "[", "]", "|", "File"}
    MaxTokens = 6
    Keys = {"city", "notes", "race"}
    Values <- MCValues
    MaxParams = 2
    Calls <- MCCalls
    MaxCalls = 2
    MaxLength = 10
CHECK_DEADLOCK FALSE
INVARIANTS
    
    BoxRead
    ListsRead
    OffersAreThePages
    AnswersAgree
    BestOfferLeads
    
