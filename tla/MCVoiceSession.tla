--------------------------- MODULE MCVoiceSession ---------------------------
(* VoiceSession for TLC: an administrator whose user waits for answers, who  *)
(* owns one of the rooms, and a page whose user does not wait.               *)
EXTENDS VoiceSession, TLC

CONSTANTS c1, c2, u1, u2, r1, r2

MCOwner     == (r1 :> u1) @@ (r2 :> u1)
MCUserOf    == (c1 :> u1) @@ (c2 :> u2)
MCMaxClicks == (c1 :> 4) @@ (c2 :> 3)

\* No guard reads `sent`.
View == <<connVars, member, callVars, page, toServer, toClient, clicks, renames>>
=============================================================================
