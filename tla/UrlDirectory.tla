---------------------------- MODULE UrlDirectory ----------------------------
(***************************************************************************)
(* What POST /shorten promises, without saying how: a directory that gives *)
(* every URL at most one code for ever, never one code to two URLs, and    *)
(* answers a client with what the directory holds.  A URL is announced as  *)
(* "created" to one client at most.  A call may also be refused (an error, *)
(* or no answer at all), whether its URL was registered or not.            *)
(*                                                                         *)
(* This is the abstract specification that module Shorten implements; its  *)
(* source is the README's and app/crud.py's description of the endpoint.   *)
(***************************************************************************)
CONSTANTS
  Clients, Urls, ShortCodes,
  Same(_, _),      \* two codes the database cannot tell apart
  Nothing

VARIABLES
  directory,       \* URL -> code, Nothing until it is registered
  call             \* client -> [state, url, code, created]

Init ==
  /\ directory = [url \in Urls |-> Nothing]
  /\ call = [c \in Clients |-> [state |-> "idle", url |-> Nothing,
                                code |-> Nothing, created |-> FALSE]]

Ask(c) ==
  /\ call[c].state = "idle"
  /\ \E url \in Urls :
       call' = [call EXCEPT ![c].state = "asked", ![c].url = url]
  /\ UNCHANGED directory

Register(url, code) ==
  /\ directory[url] = Nothing
  /\ \A u \in Urls : directory[u] # Nothing => ~Same(directory[u], code)
  /\ directory' = [directory EXCEPT ![url] = code]
  /\ UNCHANGED call

Answer(c, created) ==
  /\ call[c].state = "asked"
  /\ directory[call[c].url] # Nothing
  /\ created => \A d \in Clients :
                  call[d].url = call[c].url => ~call[d].created
  /\ call' = [call EXCEPT ![c] = [state |-> "answered", url |-> @.url,
                                  code |-> directory[@.url],
                                  created |-> created]]
  /\ UNCHANGED directory

Refuse(c) ==
  /\ call[c].state = "asked"
  /\ call' = [call EXCEPT ![c].state = "refused"]
  /\ UNCHANGED directory

Next ==
  \/ \E c \in Clients : Ask(c) \/ Refuse(c)
  \/ \E c \in Clients, created \in BOOLEAN : Answer(c, created)
  \/ \E url \in Urls, code \in ShortCodes : Register(url, code)

Spec == Init /\ [][Next]_<<directory, call>>
=============================================================================
