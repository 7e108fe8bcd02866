-------------------------------- MODULE PushStore --------------------------------
(***************************************************************************)
(* The push subscriptions (push/push.go): a VAPID key and the devices that *)
(* subscribed with it, in memory and in two files, which a wipe replaces   *)
(* one after the other, and a fan-out that prunes after the lock is gone.  *)
(***************************************************************************)
EXTENDS Naturals

CONSTANTS
  Endpoint,
  MaxSubscribes,  \* bound on the subscriptions
  MaxKeys,        \* bound on the keys that wipes make
  MaxFailures     \* bound on failed writes and crashes

ASSUME PushAssumption == MaxSubscribes \in Nat /\ MaxKeys \in Nat /\ MaxFailures \in Nat

VARIABLES
  keyMem, subsMem,    \* in memory: the key, by number, and each device's subscription
  keyFile, subsFile,  \* vapid.json and push.json
  server,             \* "up", "down" or "wiping": the lock is held between two writes
  snapshot,           \* the devices a fan-out is sending to
  handed,             \* (history) the number of the last subscription
  known,              \* (history) acknowledged ones that nothing has removed
  wiped,              \* (history) the last subscription before the last wipe
  keys, failures

pvars == <<keyMem, subsMem, keyFile, subsFile, server, snapshot, handed, known, wiped,
           keys, failures>>

\* A device's subscription is a number, and 0 is none.
NoSubs == [e \in Endpoint |-> 0]

PushInit ==
  /\ keyMem = 1 /\ keyFile = 1 /\ keys = 1
  /\ subsMem = NoSubs /\ subsFile = NoSubs
  /\ server = "up" /\ snapshot = {}
  /\ handed = 0 /\ known = NoSubs /\ wiped = 0
  /\ failures = 0

Fails == failures < MaxFailures /\ failures' = failures + 1

\* A write that fails leaves the file as it was: temp file and rename.
SaveSubs(subs) ==
  \/ subsFile' = subs /\ UNCHANGED failures
  \/ Fails /\ UNCHANGED subsFile

Saved == UNCHANGED failures

Subscribe(e) ==
  /\ server = "up" /\ handed < MaxSubscribes
  /\ handed' = handed + 1
  /\ subsMem' = [subsMem EXCEPT ![e] = handed + 1]
  /\ SaveSubs(subsMem')
  /\ known' = IF Saved THEN [known EXCEPT ![e] = handed + 1] ELSE known
  /\ UNCHANGED <<keyMem, keyFile, server, snapshot, wiped, keys>>

\* regenerateLocked: the key is in memory before it is in its file.
WipeKey ==
  /\ server = "up" /\ keys < MaxKeys
  /\ keys' = keys + 1
  /\ keyMem' = keys + 1
  /\ \/ keyFile' = keys + 1 /\ server' = "wiping" /\ UNCHANGED failures
     \/ Fails /\ UNCHANGED <<keyFile, server>>
  /\ UNCHANGED <<subsMem, subsFile, snapshot, handed, known, wiped>>

\* The subscriptions are dropped in memory only.
ForgetInMemory ==
  /\ server = "wiping"
  /\ server' = "up"
  /\ subsMem' = NoSubs
  /\ known' = NoSubs
  /\ wiped' = handed
  /\ UNCHANGED <<keyMem, keyFile, subsFile, snapshot, handed, keys, failures>>

WipeSubs ==
  /\ server = "wiping"
  /\ server' = "up"
  /\ subsMem' = NoSubs
  /\ known' = NoSubs
  /\ SaveSubs(NoSubs)
  /\ wiped' = IF Saved THEN handed ELSE wiped
  /\ UNCHANGED <<keyMem, keyFile, snapshot, handed, keys>>

\* Send copies the subscriptions under the lock and sends without it.
SendAll ==
  /\ server = "up" /\ snapshot = {}
  /\ snapshot' = {e \in Endpoint : subsMem[e] # 0}
  /\ UNCHANGED <<keyMem, subsMem, keyFile, subsFile, server, handed, known, wiped, keys, failures>>

Without(subs, dead) == [e \in Endpoint |-> IF e \in dead THEN 0 ELSE subs[e]]

\* The endpoints that the relay says are gone, whatever was subscribed since.
Prune ==
  /\ server = "up" /\ snapshot # {}
  /\ \E dead \in SUBSET snapshot :
       /\ subsMem' = Without(subsMem, dead)
       /\ known' = Without(known, dead)
       /\ IF dead = {} THEN UNCHANGED <<subsFile, failures>> ELSE SaveSubs(subsMem')
  /\ snapshot' = {}
  /\ UNCHANGED <<keyMem, keyFile, server, handed, wiped, keys>>

PushCrash ==
  /\ server # "down"
  /\ Fails
  /\ server' = "down" /\ snapshot' = {}
  /\ UNCHANGED <<keyMem, subsMem, keyFile, subsFile, handed, known, wiped, keys>>

\* The owner may remove vapid.json to rotate.
DeleteKeyFile ==
  /\ server = "down" /\ keyFile # 0
  /\ keyFile' = 0
  /\ UNCHANGED <<keyMem, subsMem, subsFile, server, snapshot, handed, known, wiped, keys, failures>>

OpenPush ==
  /\ server = "down" /\ keyFile # 0
  /\ server' = "up"
  /\ keyMem' = keyFile /\ subsMem' = subsFile
  /\ UNCHANGED <<keyFile, subsFile, snapshot, handed, known, wiped, keys, failures>>

\* Without a key file: a new key, written first, and no subscriptions. A write that
\* fails ends the server; the next one may find the new key beside the old push.json.
OpenRotates ==
  /\ server = "down" /\ keyFile = 0
  /\ keys' = keys + 1
  /\ keyMem' = keys + 1 /\ subsMem' = NoSubs
  /\ \/ /\ keyFile' = keys + 1 /\ subsFile' = NoSubs
        /\ server' = "up" /\ known' = NoSubs /\ wiped' = handed
        /\ UNCHANGED failures
     \/ /\ Fails
        /\ keyFile' \in {0, keys + 1}
        /\ UNCHANGED <<subsFile, server, known, wiped>>
  /\ UNCHANGED <<snapshot, handed>>

PushNext ==
  \/ \E e \in Endpoint : Subscribe(e)
  \/ WipeKey \/ WipeSubs \/ SendAll \/ Prune \/ PushCrash \/ DeleteKeyFile
  \/ OpenPush \/ OpenRotates

PushSpec == PushInit /\ [][PushNext]_pvars

-----------------------------------------------------------------------------
(* Properties                                                              *)

\* Wipe: "no device keeps receiving pushes after a wipe": once it has answered, no
\* subscription from before is in memory or in the file, also after a crash. And a
\* subscription that was acknowledged is in the file until it is pruned or wiped,
\* whatever failed in between and however often the server restarted.
PushFileIsTrue ==
  \A e \in Endpoint :
    /\ subsMem[e] # 0 /\ server # "down" => subsMem[e] > wiped
    /\ subsFile[e] # 0 => subsFile[e] > wiped
    /\ known[e] # 0 => subsFile[e] >= known[e]
=============================================================================
