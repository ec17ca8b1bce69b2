\* Power may be lost at any moment, in the middle of a write too.
SPECIFICATION Spec
CONSTANTS
    Networks <- MCNetworks
    Choices <- MCChoices
    Losses <- MCLosses
INVARIANT TypeOK
INVARIANT FlashHoldsSettings
INVARIANT NeverMixesGenerations
INVARIANT CompletedWriteStays
INVARIANT CompiledInNeverUsed
