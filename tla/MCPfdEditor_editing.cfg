\* Every command of the start documents, and every command after that.
CONSTANTS
    Nobody = Nobody
    StartDocuments <- MCStart
    Clipboards <- MCClipboards
    NewModels = {"mixer"}
    Names <- MCNames
    Texts = {"", "3.0", "junk"}
    SettingsChoices <- MCSettings
    MaxEdits = 2
    MaxObjects = 14
    TableRows = {1}
    MaxSelected = 1
SPECIFICATION Spec
INVARIANTS DraftsConvert SelectionIsThere 
PROPERTIES SplitIsAnInsertion PasteIsACopy EditsAreClassified
CHECK_DEADLOCK FALSE
