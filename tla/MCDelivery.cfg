SPECIFICATION DeliverySpec
CONSTANTS
    Reqs = {q1, q2}
    Users = {u1, u2}
    Anns = {a1, a2}
    Messages = {m1}
    Endpoints = {e1, e2}
    Events = {v1}
    MaxCrashes = 1
    Modes <- Instances
INVARIANTS NotificationsSound WebhooksHonest
PROPERTIES OptOutsRespected EverythingGoesOut
CHECK_DEADLOCK FALSE
