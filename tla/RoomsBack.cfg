SPECIFICATION Spec
CONSTANTS
    Client = {4, 5}
    Name = {"MAINROOM", "room1", "room"}
    MAINROOM = "MAINROOM"
    Nick = {"toto1", "toto2"}
    EIRBADMIN = "EIRBADMIN"
    AlikeBare <- AlikeRooms
    AlikeLine <- AlikeRooms
    Extends <- Beginnings
    AlikeNick <- AlikeNicks
    MaxNodes = 5
CHECK_DEADLOCK FALSE
PROPERTIES
    BackInMainroom
