SPECIFICATION Spec
CONSTANTS
    KBD_BUF_SIZE = 3
    PhysKeys <- MCKeys
    MaxWire = 2
    MaxDown = 2
INVARIANTS ModifiersTrackKeys
PROPERTIES ImplementsKeyQueue DropOnlyWhenFull
