CONSTANTS
    cover1 = cover1
    alarm1 = alarm1
    door1 = door1
    door2 = door2
    Keys = {cover1, door1}
    DoorKeys <- MCDoorKeys
    TypesOf <- MCTypesOf
    Platforms <- MCPlatforms
SPECIFICATION Spec
PROPERTY RemovalIsExplicit
