CONSTANTS
    Words = {"-conf", "-u", "-type", "MySQL", "-secure", "-insecure", "-anonymous", "-login", "-P", "--debug", ""}
    MaxArguments = 3
    CommandLines <- MCCommandLines
    ConfFiles <- MCConfFiles
    Inputs <- MCInputs
    MaxLine = 255
SPECIFICATION Spec
CHECK_DEADLOCK FALSE
INVARIANTS
    LastFlagWins
    PasswordOfLastPrompt
