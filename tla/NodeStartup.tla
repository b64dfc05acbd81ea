---------------------------- MODULE NodeStartup ----------------------------
(***************************************************************************)
(* How the leader and the peers find each other: startLeader and startPeer *)
(* (cmd/main.go) with NewPublisher, NewSubscriber and the key file of      *)
(* network/p2p.go.  A peer has no address book: it takes the leader's      *)
(* identity from the key file, which must be the very file the leader has. *)
(* A key is known by the node that generated it.                           *)
(***************************************************************************)
EXTENDS Integers, FiniteSets

CONSTANTS Leader, Peers,
          Copied,     \* the key file that was copied to every server (README, step 6)
          None,       \* no key file, or no key
          Settings    \* the conditions a run may meet

Nodes == {Leader} \cup Peers
Empty == <<>>       \* the file between its creation and the write

ASSUME NodeAssumption == /\ Leader \notin Peers /\ IsFiniteSet(Peers)
                         /\ Copied \notin Nodes /\ None \notin Nodes \cup {Copied}
                         /\ Empty \notin Nodes \cup {Copied, None}   \* an empty file is no key
                         /\ \A s \in Settings :
                              /\ s.keys \in {"copied",  \* each server has a copy of the file
                                             "shared",  \* all nodes on one server, no file yet
                                             "apart"}   \* a server each, no file yet
                              /\ s.need \in Nat        \* peer_count
                              /\ s.refused \in BOOLEAN \* the leader gets no host or no topic
                              /\ s.unwritable \in BOOLEAN \* writing the key file may fail
                              /\ s.stops \in BOOLEAN   \* peers may be stopped

VARIABLES
    setting,   \* of this run; never changes
    keyFile,   \* per node: what its P2PSenderIDFilePath holds
    key,       \* per node: the key loadOrCreatePrivateKey returned last
    at         \* per node: where it is
startVars == <<setting, keyFile, key, at>>

StartInit ==
    /\ setting \in Settings
    /\ keyFile = [n \in Nodes |-> IF setting.keys = "copied" THEN Copied ELSE None]
    /\ key = [n \in Nodes |-> None]
    /\ at = [n \in Nodes |-> "stat"]

Running == at[Leader] = "running"
Joined == {p \in Peers : at[p] = "joined"}

(* The nodes that see what n writes to the file.                           *)
Written(n, content) ==
    [m \in Nodes |-> IF m = n \/ setting.keys = "shared" THEN content ELSE keyFile[m]]

Goto(n, step) == at' = [at EXCEPT ![n] = step]

-----------------------------------------------------------------------------
(* loadOrCreatePrivateKey: os.Stat, then one of two ways.                  *)
ReadAtOnce(n) ==                           \* variant: trusts that the file is there
    /\ at[n] = "stat"
    /\ Goto(n, "read")
    /\ UNCHANGED <<setting, keyFile, key>>
Stat(n) ==
    /\ at[n] = "stat"
    /\ Goto(n, IF keyFile[n] = None THEN "create" ELSE "read")
    /\ UNCHANGED <<setting, keyFile, key>>

(* os.WriteFile truncates the file, whoever made it meanwhile ...          *)
Create(n) ==
    /\ at[n] = "create"
    /\ keyFile' = Written(n, Empty)
    /\ Goto(n, "fill")
    /\ UNCHANGED <<setting, key>>

(* ... and writes the new key, which the node keeps in any case.           *)
Fill(n) ==
    /\ at[n] = "fill"
    /\ keyFile' = Written(n, n)
    /\ key' = [key EXCEPT ![n] = n]
    /\ Goto(n, "host")
    /\ UNCHANGED setting

(* Without a key the leader gets no publisher, and asks the nil one for    *)
(* its topic (main.go:111); a peer overwrites the error and goes on        *)
(* (p2p.go:118).                                                           *)
Keyless(n) == IF n = Leader THEN "gone" ELSE "host"

(* os.WriteFile cannot open the file, or leaves it empty or incomplete;    *)
(* or no key could be made for it (lines 37 to 48).                        *)
WriteFails(n) ==
    /\ setting.unwritable /\ at[n] \in {"create", "fill"}
    /\ key' = [key EXCEPT ![n] = None]
    /\ Goto(n, Keyless(n))
    /\ UNCHANGED <<setting, keyFile>>

(* os.ReadFile.  A key that cannot be unmarshalled is an error.            *)
NoKey == {None, Empty}
ReadKey(n) ==
    /\ at[n] = "read"
    /\ key' = [key EXCEPT ![n] = IF keyFile[n] \in NoKey THEN None ELSE keyFile[n]]
    /\ Goto(n, IF keyFile[n] \in NoKey THEN Keyless(n) ELSE "host")
    /\ UNCHANGED <<setting, keyFile>>

(* NewPublisher: the host, gossip and the topic.  If one of them fails the *)
(* leader says that it tries again in a second, does not, and follows the  *)
(* nil publisher.                                                          *)
NewPublisher ==
    /\ at[Leader] = "host"
    /\ Goto(Leader, IF setting.refused THEN "gone" ELSE "waiting")
    /\ UNCHANGED <<setting, keyFile, key>>

(* The loop over ListPeers, then the generator and the adder.              *)
StartAlone ==                              \* variant: does not wait for peers
    /\ at[Leader] = "waiting"
    /\ Goto(Leader, "running")
    /\ UNCHANGED <<setting, keyFile, key>>
StartProducing ==
    /\ at[Leader] = "waiting"
    /\ Cardinality(Joined) >= setting.need
    /\ Goto(Leader, "running")
    /\ UNCHANGED <<setting, keyFile, key>>

(* NewSubscriber: the connection is refused unless the leader listens and  *)
(* has the identity the peer expects; then the peer tries again, from the  *)
(* key file on.                                                            *)
Welcome(p) == at[Leader] \in {"waiting", "running"} /\ key[p] = key[Leader]
GivenUp(p) ==                              \* variant: without the loop
    /\ at[p] = "host" /\ ~Welcome(p)
    /\ Goto(p, "gone")
    /\ UNCHANGED <<setting, keyFile, key>>
Retry(p) ==
    /\ at[p] = "host" /\ ~Welcome(p)
    /\ Goto(p, "stat")
    /\ UNCHANGED <<setting, keyFile, key>>
Connect(p) ==
    /\ at[p] = "host" /\ Welcome(p)
    /\ Goto(p, "joined")
    /\ UNCHANGED <<setting, keyFile, key>>

(* A signal cancels the context.  Sub.Next of a joined peer returns an     *)
(* error, which is logged, and the nil message ends the process before its *)
(* last second is over; any other peer ends with that second.  A peer that *)
(* gets no host of its own ends the same way (p2p.go:127).                 *)
Stop(p) ==
    /\ setting.stops /\ at[p] # "gone"
    /\ Goto(p, "gone")
    /\ UNCHANGED <<setting, keyFile, key>>

LoadKey(n) == Stat(n) \/ Create(n) \/ Fill(n) \/ WriteFails(n) \/ ReadKey(n)
LeaderStarts == NewPublisher \/ StartProducing

-----------------------------------------------------------------------------
(* A peer whose key file does not hold the leader's key.                   *)
Stranger(p) == keyFile[p] # key[Leader]

(* Start-up ends with a chain in production or a leader that is gone,      *)
(* unless peers are stopped or too few, or the key files differ for good:  *)
(* a race of two nodes for a shared file, a file that could not be written *)
(* or separate servers without a copy, are the only ways in which the      *)
(* retries of startPeer never help.                                        *)
StartUpEnds ==
    \/ setting.stops \/ setting.need > Cardinality(Peers)
    \/ <>(at[Leader] \in {"running", "gone"})
    \/ <>[](\E p \in Peers : Stranger(p))

(* A leader that has a chain and has not yet produced dies only of the nil *)
(* publisher (main.go, line 111), and that only if it got no host or no    *)
(* topic, could not write its key, or read a key file that a peer on its   *)
(* server had created and not filled; a file of its own it never reads     *)
(* before it is whole.                                                     *)
LeaderDiesOnlyOf ==
    at[Leader] = "gone" =>
        \/ setting.refused
        \/ key[Leader] = None /\ (setting.unwritable \/ setting.keys = "shared")
=============================================================================
