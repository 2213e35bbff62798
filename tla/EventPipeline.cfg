\* Four events; one call may be repeated, or the service may crash once.
SPECIFICATION FairSpec
CONSTANTS
  vip = vip
  plain = plain
  ticket = ticket
  receipt = receipt
  OutboxEvents <- OutboxEventsMC
  DirectEvents <- DirectEventsMC
  FollowUps <- FollowUpsMC
  Handlers <- HandlersMC
  Subscribes <- SubscribesMC
  Emits <- EmitsMC
  Fails <- FailsMC
  MaxFaults = 1
INVARIANTS
  TypeOK
  PipelineInv
PROPERTIES
  GroupsAreServed
  EventsArrive
CHECK_DEADLOCK FALSE
