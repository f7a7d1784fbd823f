------------------------------ MODULE FileLife ------------------------------
(***************************************************************************)
(* What file-service promises of its files: what readers see of one changes *)
(* only when another version of it is published, an uploaded file is never  *)
(* replaced, and a deleted one is gone for good.                            *)
(***************************************************************************)
CONSTANTS StoredFiles, \* file ids
          Versions,    \* names of stored versions
          NoVersion    \* the version of a file that has none of its own

VARIABLES version,   \* the version readers of each file are pointed at
          visible,   \* what they see of it, an empty sequence when there is nothing
          immutable, \* the files reserved by an upload URL
          gone       \* the files deleted

lifeVars == <<version, visible, immutable, gone>>

LifeInit ==
    /\ version = [f \in StoredFiles |-> NoVersion]
    /\ immutable \in SUBSET StoredFiles
    /\ gone = {}

\* An upload URL is issued for an id nobody has stored anything under.
Reserve(f) ==
    /\ f \notin immutable \cup gone /\ visible[f] = <<>>
    /\ immutable' = immutable \cup {f}
    /\ UNCHANGED <<version, visible, gone>>

\* Something new is there to read, and only under the ids it was published for.
PublishVersion(f) ==
    /\ f \notin gone
    /\ f \in immutable => version[f] = NoVersion
    /\ version'[f] \in Versions \ {version[f]}
    /\ version' = [version EXCEPT ![f] = version'[f]]
    /\ visible'[f] # <<>>
    /\ \A g \in StoredFiles \ {f} : visible'[g] = visible[g]
    /\ UNCHANGED <<immutable, gone>>

\* One request deletes one file or many.
Delete(S) ==
    /\ gone' = gone \cup S
    /\ version' = [f \in StoredFiles |-> IF f \in S THEN NoVersion ELSE version[f]]
    /\ visible' = [f \in StoredFiles |-> IF f \in S THEN <<>> ELSE visible[f]]
    /\ UNCHANGED immutable

LifeNext ==
    \/ \E f \in StoredFiles : Reserve(f) \/ PublishVersion(f)
    \/ \E S \in (SUBSET StoredFiles) \ {{}} : Delete(S)

LifeSpec == LifeInit /\ [][LifeNext]_lifeVars
=============================================================================
