SPECIFICATION Spec
CONSTANTS
  Ticket = Ticket
  Vote = Vote
  Rescans = {r1}
  Listeners = {l1, l2}
  TicketMaturity = 1
  TicketExpiry = 1
  MaxReOrgBlocks = 1
  MaxHeight = 3
  MaxEvents = 2
SYMMETRY Symmetry
INVARIANTS  ClassificationsAgree
CHECK_DEADLOCK FALSE
