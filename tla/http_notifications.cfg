SPECIFICATION Spec
INVARIANT NotificationsUnanswered
CHECK_DEADLOCK FALSE
