SPECIFICATION FairSpec
CONSTANTS
    armor = armor
    amulet = amulet
    shell = shell
    timer = timer
    NoTitle = NoTitle
    Titles = {armor, amulet}
    TypeOf <- MCTypeOf
    SlugOf <- MCSlugOf
    CATALOG_IMPORT_ORDER <- MCOrder
    Seeded = {armor}
    Ticks = {timer}
    Shells = {shell}
    Limits = {1}
    TitleBatch = 1
    MaxEdits = 1
    Faults = {"wiki","database", "kill"}
INVARIANT RevisionVouches
PROPERTIES
    ImplementsCopy
    SeededKept
    CopyConverges
