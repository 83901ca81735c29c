----------------------------- MODULE VersionLog -----------------------------
(***************************************************************************)
(* What the snippet store promises its clients, without transactions,      *)
(* locks or requests: every snippet is a log of immutable versions         *)
(* (README, "One snippet has many immutable versions").  A snippet appears *)
(* with its first version, grows by one whole version at a time and may be *)
(* soft-deleted; nothing else ever happens to it.                          *)
(***************************************************************************)
EXTENDS Naturals, Sequences

CONSTANTS Snippets,  \* primary keys of the table snippets
          Contents,  \* texts a version can hold
          NULL       \* SQL NULL: SnippetVersion.content is nullable

VARIABLES status,    \* status[s]: "absent", "live" or "deleted" (deleted_at set)
          log        \* log[s]: the versions of s, version n at position n

vars == <<status, log>>

(* app/core/enum.py, VisibilityType *)
Visibility == {"public", "private"}

(* The columns of a SnippetVersion that never change once it is inserted. *)
Version == [content : Contents \cup {NULL}, visibility : Visibility]

Init ==
    /\ status = [s \in Snippets |-> "absent"]
    /\ log = [s \in Snippets |-> << >>]

(* A snippet becomes visible together with its version 1. *)
Create(s) ==
    /\ status[s] = "absent"
    /\ \E v \in Version : log' = [log EXCEPT ![s] = <<v>>]
    /\ status' = [status EXCEPT ![s] = "live"]

(* An edit adds one version.  The snippet may have been soft-deleted since *)
(* the edit looked it up: the row is still there and still takes versions. *)
Edit(s) ==
    /\ status[s] # "absent"
    /\ \E v \in Version : log' = [log EXCEPT ![s] = Append(@, v)]
    /\ UNCHANGED status

(* Soft delete: the log stays. *)
Delete(s) ==
    /\ status[s] # "absent"
    /\ status' = [status EXCEPT ![s] = "deleted"]
    /\ UNCHANGED log

Next == \E s \in Snippets : Create(s) \/ Edit(s) \/ Delete(s)

Spec == Init /\ [][Next]_vars
=============================================================================
