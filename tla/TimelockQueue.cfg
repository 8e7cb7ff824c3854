\* Two operations, two owners, delays of one and two steps, one step of grace.
SPECIFICATION Spec
CONSTANTS
    alice = alice
    bob = bob
    upgrade = upgrade
    retune = retune
    engine = engine
    Ops = {upgrade, retune}
    Targets = {engine}
    Keys = {alice, bob}
    NoKey = NoKey
    MIN_DELAY = 1
    MAX_DELAY = 2
    GRACE_PERIOD = 1
    Delays = {0, 1, 2, 3}
    MaxNow = 5
    MaxDispatches = 2
    NotQueued = NotQueued
PROPERTIES ImplementsEmbargo
