SPECIFICATION Spec
CONSTANTS
  Task = {t1, t2, t3}
  Call <- MCCall
  MaxSlots = 2
PROPERTIES
  SlotCap GrantHoldsSlot ServedInOrder
  IdleSlotOnlyByEviction EveryCallAnswered
