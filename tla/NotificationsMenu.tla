-------------------------- MODULE NotificationsMenu --------------------------
(* The bell in the header: it loads the notices once, shows a notice as    *)
(* read the moment it is pressed, and tells the server afterwards.  The    *)
(* server's answer has read_at, which the menu does not look at.           *)
EXTENDS Naturals

CONSTANTS Notices

VARIABLES
  stored,       \* server: "none", "unread" or "read"
  asking, list, \* the request for the list: "sent", "answered", "over"; its answer
  items,        \* what the menu shows: "none", "unread" or "read"
  loaded,
  marks,        \* markRead on its way: "none", "sent"
  missed        \* ghost: notices whose markRead was lost

bellVars == <<stored, asking, list, items, loaded, marks, missed>>
Empty    == [n \in Notices |-> "none"]

BellInit ==
  /\ stored \in [Notices -> {"none", "unread", "read"}]
  /\ asking = "sent" /\ list = Empty /\ items = Empty /\ loaded = FALSE /\ marks = Empty /\ missed = {}

\* listNotifications; a notice that was read is unread to the menu.
ServeNotices ==
  /\ asking = "sent"
  /\ asking' = "answered"
  /\ list' = [n \in Notices |-> IF stored[n] = "none" THEN "none" ELSE "unread"]
  /\ UNCHANGED <<stored, items, loaded, marks, missed>>

ShowNotices ==
  /\ asking = "answered"
  /\ asking' = "over" /\ items' = list /\ loaded' = TRUE
  /\ UNCHANGED <<stored, list, marks, missed>>

NoticesFail ==
  /\ asking # "over"
  /\ asking' = "over" /\ items' = Empty /\ loaded' = TRUE
  /\ UNCHANGED <<stored, list, marks, missed>>

\* markRead (mutant: the server is not told).
MarkReadHere(n) ==
  /\ items[n] = "unread"
  /\ items' = [items EXCEPT ![n] = "read"]
  /\ UNCHANGED <<stored, asking, list, loaded, marks, missed>>
MarkRead(n) ==
  /\ items[n] = "unread"
  /\ items' = [items EXCEPT ![n] = "read"]
  /\ marks' = [marks EXCEPT ![n] = "sent"]
  /\ UNCHANGED <<stored, asking, list, loaded, missed>>

\* readNotification: also when it was read before.
ReadNotification(n) ==
  /\ marks[n] = "sent"
  /\ stored' = [stored EXCEPT ![n] = IF @ = "unread" THEN "read" ELSE @]
  /\ marks' = [marks EXCEPT ![n] = "none"]
  /\ UNCHANGED <<asking, list, items, loaded, missed>>

MarkFails(n) ==
  /\ marks[n] = "sent"
  /\ marks' = [marks EXCEPT ![n] = "none"]
  /\ missed' = missed \cup {n}
  /\ UNCHANGED <<stored, asking, list, items, loaded>>

\* A promotion, elsewhere, leaves a notice.
Notify(n) ==
  /\ stored[n] = "none"
  /\ stored' = [stored EXCEPT ![n] = "unread"]
  /\ UNCHANGED <<asking, list, items, loaded, marks, missed>>

\* The page is loaded again.
Reopen ==
  /\ asking = "over"
  /\ asking' = "sent" /\ list' = Empty /\ items' = Empty /\ loaded' = FALSE /\ marks' = Empty /\ missed' = {}
  /\ UNCHANGED stored

BellNext ==
  \/ ServeNotices \/ ShowNotices \/ NoticesFail \/ Reopen
  \/ \E n \in Notices : MarkRead(n) \/ ReadNotification(n) \/ MarkFails(n) \/ Notify(n)
-----------------------------------------------------------------------------
BellTypeOK ==
  /\ {stored, list, items} \subseteq [Notices -> {"none", "unread", "read"}]
  /\ marks \in [Notices -> {"none", "sent"}]
  /\ asking \in {"sent", "answered", "over"} /\ loaded \in BOOLEAN /\ missed \subseteq Notices

\* A notice the menu shows as read is read at the server as well, or about to
\* be, unless the request that says so was lost (markRead shows it first).
ReadIsStored ==
  \A n \in Notices : items[n] = "read" => stored[n] = "read" \/ marks[n] = "sent" \/ n \in missed
=============================================================================
