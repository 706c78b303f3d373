----------------------- MODULE MCNotificationDelivery -----------------------
(* One notification and the two messages that may be sent for it *)
EXTENDS NotificationDelivery

CONSTANTS m1, m2

MCCopies == {m1, m2}
=============================================================================
