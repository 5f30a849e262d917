CONSTANTS
    client = client
    server = server
    End = {client, server}
    Server = server
    MaxLength = 2
    MaxRecord = 4
    MaxBytes = 3
    Room = 1
SPECIFICATION LiveSpec
CHECK_DEADLOCK FALSE
PROPERTIES
    ReceiveReturns
