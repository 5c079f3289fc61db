--------------------------------- MODULE Tunnel --------------------------------
(***************************************************************************)
(* What the relay promises to its two ends: each channel is a pair of      *)
(* ordered streams between one portal page and the daemon. An end opens at *)
(* most once; while it is open it takes the packets of the other end one   *)
(* by one, none skipped, none repeated, none of another channel; a closed  *)
(* end takes nothing any more.                                             *)
(*                                                                         *)
(* The encrypted protocol on top relies on exactly this: both ends number  *)
(* their packets (apps/web/src/e2e.ts, connector.go) and close the channel *)
(* on the first number they do not expect.                                 *)
(***************************************************************************)
EXTENDS Naturals, Sequences

CONSTANT Channels

VARIABLES
  page,      \* the browser end of each channel
  daemon,    \* the daemon end
  sent,      \* packets each end has sent, as a count
  got        \* packets each end has taken, as their numbers

vars == <<page, daemon, sent, got>>

Ends == {"page", "daemon"}
Other(e) == IF e = "page" THEN "daemon" ELSE "page"
EndOf(e) == IF e = "page" THEN page ELSE daemon

Init ==
  /\ page = [c \in Channels |-> "idle"]
  /\ daemon = [c \in Channels |-> "idle"]
  /\ sent = [c \in Channels |-> [e \in Ends |-> 0]]
  /\ got = [c \in Channels |-> [e \in Ends |-> <<>>]]

Send(c, e) ==
  /\ EndOf(e)[c] = "open"
  /\ sent' = [sent EXCEPT ![c][e] = @ + 1]
  /\ UNCHANGED <<page, daemon, got>>

\* The next packet of the other end, by its number.
Take(c, e) ==
  /\ EndOf(e)[c] = "open"
  /\ Len(got[c][e]) < sent[c][Other(e)]
  /\ got' = [got EXCEPT ![c][e] = Append(@, Len(@) + 1)]
  /\ UNCHANGED <<page, daemon, sent>>

\* A page opens and closes one channel; the daemon loses all of its channels at
\* once when its connection ends. No end opens twice.
Moves(from, to) ==
  \A c \in Channels : to[c] = from[c] \/ <<from[c], to[c]>> \in
    {<<"idle", "open">>, <<"open", "closed">>, <<"idle", "closed">>}

Change ==
  /\ page' \in [Channels -> {"idle", "open", "closed"}]
  /\ daemon' \in [Channels -> {"idle", "open", "closed"}]
  /\ Moves(page, page')
  /\ Moves(daemon, daemon')
  /\ UNCHANGED <<sent, got>>

Next == Change \/ \E c \in Channels, e \in Ends : Send(c, e) \/ Take(c, e)

Spec == Init /\ [][Next]_vars
================================================================================
