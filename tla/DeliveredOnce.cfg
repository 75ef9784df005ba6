\* Two notes: the second is drafted after the app was killed between the
\* write of the first to the outbox and the store of its draft.
CONSTANTS
  Order = {o1}
  MaxRoutes = 1
  MaxForms = 1
  MaxNotes = 2
  None = None
SPECIFICATION ShiftSpec
INVARIANT DeliveredOnce
CHECK_DEADLOCK FALSE
