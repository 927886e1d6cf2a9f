SPECIFICATION Spec
CONSTANT MaxSlots = 11
INVARIANT PublishedAgrees
PROPERTY ImplementsSlotSet
