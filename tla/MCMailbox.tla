----------------------------- MODULE MCMailbox -----------------------------
(* Two clients: one asks for a reply, posts and stops the mailbox; the other *)
(* forgets a message, asks for a reply and stops the mailbox, too.           *)
EXTENDS Mailbox

CONSTANTS a1, a2, a3, b1, b2, b3

MCMessage == {a1, a2, a3, b1, b2, b3}

MCkind ==
    [m \in MCMessage |->
        CASE m = a1 -> "post_and_reply" [] m = a2 -> "post" [] m = a3 -> "stop"
          [] m = b1 -> "post_and_forget" [] m = b2 -> "post_and_reply"
          [] m = b3 -> "stop_and_forget"]

MCprevious ==
    [m \in MCMessage |->
        CASE m = a2 -> a1 [] m = a3 -> a2 [] m = b2 -> b1 [] m = b3 -> b2
          [] OTHER -> NoMessage]
=============================================================================
