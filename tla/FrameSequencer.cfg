\* Any access in any slot.
SPECIFICATION FairSpec
CONSTANTS
    FourStep <- MCFourStep
    FiveStep <- MCFiveStep
    Reloads <- MCReloads
INVARIANTS NeverPastStep DisabledIsSilent
PROPERTIES NoDoubleClock SequencerDelivers
