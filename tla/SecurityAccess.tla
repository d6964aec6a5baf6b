--------------------------- MODULE SecurityAccess ---------------------------
(***************************************************************************)
(* The SecurityAccess handshake unlock() (protocol/security/unlock.py) on  *)
(* top of the client of UdsClient: request a seed, compute the key, send   *)
(* the key.  Every call carries service 0x27 in both directions, so the    *)
(* client tells a seed from an acknowledged key by the order of replies    *)
(* alone.  unlock() is called again and again; between two attempts the    *)
(* ECU may lock itself.                                                    *)
(*                                                                         *)
(* The seed the ECU issues for request i is i, so seeds are fresh; 0 is a  *)
(* seed of zero bytes, or none at all, which unlock() takes for the same.  *)
(* A key is known by the seed it was computed from.                        *)
(***************************************************************************)
EXTENDS UdsClient

VARIABLES
  ustep,     \* where unlock() is: before, in its two calls, or how it ended
  content,   \* per request: 0 for a seed request, or the seed its key is for
  seed,      \* per request: the seed in the ECU's positive reply to it
  locked,    \* the ECU's lock
  issued     \* the seed the ECU expects a key for (0: none)

unlockVars == <<ustep, content, seed, locked, issued>>
allVars == <<vars, unlockVars>>

UnlockTypeOK ==
  /\ TypeOK
  /\ ustep \in {"start", "seed", "key", "true", "raised"}
  /\ content \in [Ids -> 0 .. MaxCalls]
  /\ seed \in [Ids -> 0 .. MaxCalls]
  /\ locked \in BOOLEAN
  /\ issued \in 0 .. MaxCalls

UnlockInit ==
  /\ Init
  /\ ustep = "start"
  /\ content = [i \in Ids |-> 0]
  /\ seed = [i \in Ids |-> 0]
  /\ locked \in BOOLEAN
  /\ issued = 0

Over == ustep \in {"start", "true", "raised"}

-----------------------------------------------------------------------------
(* unlock()                                                                *)

\* security_access_request_seed: 27 <level>.
RequestSeed ==
  /\ Over
  /\ \E sid \in Sids : Send(sid, TRUE) \/ SendFails(sid, TRUE)
  /\ ustep' = "seed"
  /\ UNCHANGED <<content, seed, locked, issued>>

Reply == outcome[calls]
GotSeed == ustep = "seed" /\ pc = "idle" /\ Reply.kind = "positive"

\* not any(seed): already unlocked, so no key is sent.
AlreadyUnlocked ==
  /\ GotSeed
  /\ seed[Reply.from] = 0
  /\ ustep' = "true"
  /\ UNCHANGED <<vars, content, seed, locked, issued>>

\* Mutation of SendKey: the key is computed for a seed remembered from before.
SendKeyOfFirstSeed ==
  /\ GotSeed
  /\ seed[Reply.from] # 0
  /\ \E sid \in Sids : Send(sid, TRUE) \/ SendFails(sid, TRUE)
  /\ content' = [content EXCEPT ![calls + 1] = CHOOSE s \in Ids : seed[s] = s]
  /\ ustep' = "key"
  /\ UNCHANGED <<seed, locked, issued>>

\* compute_key, then security_access_send_key: 27 <level + 1> <key>.
SendKey ==
  /\ GotSeed
  /\ seed[Reply.from] # 0
  /\ \E sid \in Sids : Send(sid, TRUE) \/ SendFails(sid, TRUE)
  /\ content' = [content EXCEPT ![calls + 1] = seed[Reply.from]]
  /\ ustep' = "key"
  /\ UNCHANGED <<seed, locked, issued>>

\* compute_key raises UnlockError: no definition, no provider, or it rejects
\* the seed.
NoKey ==
  /\ GotSeed
  /\ seed[Reply.from] # 0
  /\ ustep' = "raised"
  /\ UNCHANGED <<vars, content, seed, locked, issued>>

\* Mutation of KeyReply: unlock() reports success whatever the key call raised.
KeyReplyIgnored ==
  /\ ustep = "key"
  /\ pc = "idle"
  /\ ustep' = "true"
  /\ UNCHANGED <<vars, content, seed, locked, issued>>

\* send_key returned, and unlock() returns True with it.
KeyReply ==
  /\ ustep = "key"
  /\ pc = "idle"
  /\ Reply.kind = "positive"
  /\ ustep' = "true"
  /\ UNCHANGED <<vars, content, seed, locked, issued>>

\* Mutation of CallRaised: a failed attempt returns False.
CallReturnsFalse ==
  /\ ustep \in {"seed", "key"}
  /\ pc = "idle"
  /\ Reply.kind # "positive"
  /\ ustep' = "false"
  /\ UNCHANGED <<vars, content, seed, locked, issued>>

\* Either call raised; the exception leaves unlock().
CallRaised ==
  /\ ustep \in {"seed", "key"}
  /\ pc = "idle"
  /\ Reply.kind # "positive"
  /\ ustep' = "raised"
  /\ UNCHANGED <<vars, content, seed, locked, issued>>

-----------------------------------------------------------------------------
(* The ECU's side of service 0x27.                                         *)

Asked == content[Head(ecuq).id]

EcuSeed ==
  /\ ecuq # << >> /\ Asked = 0
  /\ EcuDecide("accepted")
  /\ issued' = IF locked THEN Head(ecuq).id ELSE 0
  /\ seed' = [seed EXCEPT ![Head(ecuq).id] = issued']
  /\ UNCHANGED <<ustep, content, locked>>

EcuNoSeed ==
  /\ ecuq # << >> /\ Asked = 0
  /\ EcuDecide("rejected")
  /\ UNCHANGED unlockVars

\* The right key for the last seed opens the lock; any key uses the seed up.
EcuKey ==
  /\ ecuq # << >> /\ Asked # 0
  /\ EcuDecide(IF Asked = issued THEN "accepted" ELSE "rejected")
  /\ locked' = (locked /\ Asked # issued)
  /\ issued' = 0
  /\ UNCHANGED <<ustep, content, seed>>

\* The ECU leaves the session of its own accord while no attempt is running.
EcuLocks ==
  /\ Over
  /\ ~locked
  /\ locked' = TRUE
  /\ issued' = 0
  /\ ustep' = "start"
  /\ UNCHANGED <<vars, content, seed>>

-----------------------------------------------------------------------------
Unlock == RequestSeed \/ AlreadyUnlocked \/ SendKey \/ NoKey \/ KeyReply \/ CallRaised

UnlockNext ==
  \/ Unlock
  \/ EcuSeed \/ EcuNoSeed \/ EcuKey \/ EcuLocks
  \/ (Receive \/ Timeout \/ RecvFails \/ EcuPending \/ EcuIgnore) /\ UNCHANGED unlockVars

\* unlock() goes on by itself, and the client as in UdsClient.
UnlockSpec ==
  /\ UnlockInit
  /\ [][UnlockNext]_allVars
  /\ WF_allVars(AlreadyUnlocked \/ SendKey \/ NoKey \/ KeyReply \/ CallRaised)
  /\ WF_allVars(Receive /\ UNCHANGED unlockVars)
  /\ WF_allVars(Timeout /\ UNCHANGED unlockVars)

-----------------------------------------------------------------------------
(* Properties.                                                             *)

\* The first call of the attempt that has sent its key, or has not needed one.
SeedCall == IF content[calls] = 0 THEN calls ELSE calls - 1

\* Lateness does no harm to an attempt that starts on a quiet channel: its two
\* replies are told apart by their order, and True then means unlocked.
QuietAttemptIsRight == ustep = "true" /\ SeedCall \in quiet => ~locked

\* A quiet seed request makes the key's call quiet too: the seed's reply is the
\* last the ECU owes, so one quiet moment covers the whole handshake.
QuietSeedMakesQuietKey ==
  ustep = "key" /\ pc # "idle" /\ SeedCall \in quiet => calls \in quiet

\* After a quiet seed request the ECU is not offered a key for another seed than
\* the one it issued last: a wrong key counts towards its lock-out.
KeyFitsSeed ==
  /\ ecuq # << >> /\ Asked # 0
  /\ Head(ecuq).id - 1 \in quiet
  /\ issued # 0
  => Asked = issued

\* Every attempt ends, although the ECU may answer 0x78 without end.
UnlockEnds == ~Over ~> Over
=============================================================================
