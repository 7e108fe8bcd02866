-------------------------------- MODULE ChatIds --------------------------------
(***************************************************************************)
(* The identifiers both chat products of the server share.  Butler (the    *)
(* one assistant of the instance) and CodeMap (one assistant per project)  *)
(* keep their chats in the same kind of store and guard their runs with    *)
(* the same kind of tracker; only the scope differs.                       *)
(***************************************************************************)

CONSTANTS
  Thread,   \* the ids MintID may hand out for chat folders
  Scope,    \* the store scopes: {""} for Butler, the project ids for CodeMap
  ScopeOf,  \* the scope each id will be minted in, [Thread -> Scope]
  Card      \* the approvals (confirm cards) that may be proposed, {} for CodeMap

Blank == ""      \* Go's zero string: "no thread yet", "no card"
Free  == "free"  \* a tracker key that is absent from the map

ASSUME IdAssumption ==
  /\ ScopeOf \in [Thread -> Scope]
  /\ Blank \notin Thread \cup Card
  /\ Free \notin Thread
=============================================================================
