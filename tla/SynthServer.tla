----------------------------- MODULE SynthServer -----------------------------
(***************************************************************************)
(* The synths of the worms: AKSCSynth, which hands out ids and sends one   *)
(* time-stamped bundle per command over UDP, and the node tree of the      *)
(* scsynth it talks to, which performs the bundles in the order of their   *)
(* stamps and never answers.                                               *)
(*                                                                         *)
(* The worms' side is what PWWorm does with AKSCSynth: mantleSynths,       *)
(* eatEffect:, a note of its sequence, dismantleSynths.  WormField shows   *)
(* in which order: effects only before the first dismantling, at most two  *)
(* dismantlings, and notes for ever, because clearWorm stops the worm but  *)
(* not its sequence.                                                       *)
(*                                                                         *)
(* Each command is stamped 0.1 s after the time it is sent, so the queue   *)
(* of bundles waiting in the server is kept as a sequence in stamp order.  *)
(* Two things disturb it: a lost datagram, and a clock that is set back.   *)
(***************************************************************************)
EXTENDS Integers, Sequences, FiniteSets, Removal

CONSTANTS
    Worms,          \* the worms
    NodeBase,       \* lastNodeID at the start (1000)
    GroupBases,     \* lastGroupID when the first worm explored is made: 500
                    \* at the start, more after the worms of a long session
    MaxNodes,       \* the nodes the server has room for (mMaxNodes, 1024)
    MaxIssued,      \* bound: how many synth ids are handed out
    MaxQueued,      \* bound: nothing is sent while more bundles wait
    MaxLost,        \* bound: how many bundles are lost
    MaxSetBack      \* bound: how many bundles overtake an earlier one

ASSUME ServerAssumption ==
    /\ IsFiniteSet(Worms)
    /\ NodeBase \in Nat /\ GroupBases \subseteq 1 .. NodeBase - 1
    /\ MaxNodes \in Nat /\ MaxIssued \in Nat /\ MaxQueued \in Nat
    /\ MaxLost \in Nat /\ MaxSetBack \in Nat

VARIABLES
    lastNodeID, lastGroupID,            \* AKSCSynth's counters
    life,                               \* what a worm has done so far
    groupID, outputNodeID, activeEffectID,  \* the ids a worm keeps
    queue,      \* the bundles on their way or scheduled, in stamp order
    tree,       \* the children of every group of the server
    refused,    \* history: the worm and role of every command refused
    lost, setBack   \* how many bundles were lost and overtaken

vars == <<lastNodeID, lastGroupID, life, groupID, outputNodeID,
          activeEffectID, queue, tree, refused, lost, setBack>>
clientVars == <<lastNodeID, lastGroupID, life, groupID, outputNodeID,
                activeEffectID>>
serverVars == <<tree, refused, lost, setBack>>

Nil == -1
Root == 0
Roles == {"group", "output", "effect", "note", "freeAll", "free"}

\* A node and the command about it name the worm and the part it plays, for
\* the properties; the server looks at the id, the action and the target.
Node(id, w, role) == [id |-> id, worm |-> w, role |-> role]
Command(id, w, role, action, target) ==
    [node |-> Node(id, w, role), action |-> action, target |-> target]

Actions == {"head", "tail", "before", "replace", "freeAll", "free"}
NodeSet == [id : Nat, worm : Worms, role : Roles]
CommandSet == [node : NodeSet, action : Actions, target : Nat]

-----------------------------------------------------------------------------
Init ==
    /\ lastNodeID = NodeBase
    /\ lastGroupID \in GroupBases
    /\ life = [w \in Worms |-> "unborn"]
    /\ groupID = [w \in Worms |-> Nil]
    /\ outputNodeID = [w \in Worms |-> Nil]
    /\ activeEffectID = [w \in Worms |-> Nil]
    /\ queue = << >>
    /\ tree = [g \in {Root} |-> << >>]
    /\ refused = {}
    /\ lost = 0 /\ setBack = 0

MaySend == Len(queue) <= MaxQueued
MayIssue == MaySend /\ lastNodeID < NodeBase + MaxIssued

\* Mutant of NextGroupID: the counter is not moved on.
SameGroupID == lastGroupID

\* -[AKSCSynth group] counts up and answers the new value.
NextGroupID == lastGroupID + 1

\* Mutant of VoiceCommands: the connector is sent before its group.
VoiceCommandsSwapped(w, g, o) ==
    << Command(o, w, "output", "tail", g), Command(g, w, "group", "tail", Root) >>

\* The commands of mantleSynths: a group, and in it the connector to the
\* output.
VoiceCommands(w, g, o) ==
    << Command(g, w, "group", "tail", Root), Command(o, w, "output", "tail", g) >>

\* -[PWWorm mantleSynths]
MantleSynths(w) ==
    LET g == NextGroupID
        o == lastNodeID + 1
    IN  /\ life[w] = "unborn"
        /\ MayIssue
        /\ life' = [life EXCEPT ![w] = "alive"]
        /\ lastGroupID' = g
        /\ lastNodeID' = o
        /\ groupID' = [groupID EXCEPT ![w] = g]
        /\ outputNodeID' = [outputNodeID EXCEPT ![w] = o]
        /\ queue' = queue \o VoiceCommands(w, g, o)
        /\ UNCHANGED <<activeEffectID, serverVars>>

\* Mutants of EffectCommand: without its test, one branch or the other.
EffectAlwaysReplaces(w, e) ==
    Command(e, w, "effect", "replace", activeEffectID[w])
EffectAlwaysBefore(w, e) ==
    Command(e, w, "effect", "before", outputNodeID[w])

\* The first effect goes before the connector, a later one replaces the one
\* before it.
EffectCommand(w, e) ==
    IF activeEffectID[w] # Nil
      THEN Command(e, w, "effect", "replace", activeEffectID[w])
      ELSE Command(e, w, "effect", "before", outputNodeID[w])

\* -[PWWorm eatEffect:]
EatEffect(w) ==
    LET e == lastNodeID + 1
    IN  /\ life[w] = "alive"
        /\ MayIssue
        /\ lastNodeID' = e
        /\ activeEffectID' = [activeEffectID EXCEPT ![w] = e]
        /\ queue' = Append(queue, EffectCommand(w, e))
        /\ UNCHANGED <<lastGroupID, life, groupID, outputNodeID, serverVars>>

\* Mutant of NoteCommand: notes go behind the connector they feed.
NoteAtTail(w, id) == Command(id, w, "note", "tail", groupID[w])

NoteCommand(w, id) == Command(id, w, "note", "head", groupID[w])

\* -[EWPitchEvent fire], by the sequence of a worm that may be long cleared.
Fire(w) ==
    /\ life[w] # "unborn"
    /\ MayIssue
    /\ lastNodeID' = lastNodeID + 1
    /\ queue' = Append(queue, NoteCommand(w, lastNodeID + 1))
    /\ UNCHANGED <<lastGroupID, life, groupID, outputNodeID, activeEffectID,
                   serverVars>>

\* Mutants of FreeCommands: the group itself is kept, or another node freed.
FreeMembersOnly(w) ==
    << Command(groupID[w], w, "freeAll", "freeAll", groupID[w]) >>
FreeConnectorOnly(w) ==
    << Command(outputNodeID[w], w, "free", "free", outputNodeID[w]) >>

\* -[AKSCSynth freeAllInGroup:]: the members, then the group.
FreeCommands(w) ==
    << Command(groupID[w], w, "freeAll", "freeAll", groupID[w]),
       Command(groupID[w], w, "free", "free", groupID[w]) >>

\* -[PWWorm dismantleSynths], from clearWorm.
DismantleSynths(w) ==
    /\ life[w] \in {"alive", "cleared"}
    /\ MaySend
    /\ life' = [life EXCEPT ![w] = IF @ = "alive" THEN "cleared" ELSE "clearedTwice"]
    /\ queue' = queue \o FreeCommands(w)
    /\ UNCHANGED <<lastNodeID, lastGroupID, groupID, outputNodeID,
                   activeEffectID, serverVars>>

-----------------------------------------------------------------------------
(***************************************************************************)
(* The node tree.  Groups of worms hang in the root group and hold synths. *)
(***************************************************************************)
Elements(seq) == { seq[k] : k \in DOMAIN seq }
Nodes(t) == UNION { Elements(t[g]) : g \in DOMAIN t }
Ids(t) == { n.id : n \in Nodes(t) } \cup {Root}
ParentOf(t, id) == CHOOSE g \in DOMAIN t : \E n \in Elements(t[g]) : n.id = id
IndexOf(seq, id) == CHOOSE k \in DOMAIN seq : seq[k].id = id
OtherThan(seq, id) == Without(seq, { n \in Elements(seq) : n.id = id })

\* Group_AddHead and Group_AddTail: n joins the group target.
LinkedInto(t, n, action, target) ==
    [t EXCEPT ![target] = IF action = "head" THEN <<n>> \o @ ELSE Append(@, n)]

\* Node_AddBefore and Node_Replace: n stands before target or in its place;
\* a group that is replaced takes its children with it.
LinkedAt(t, n, action, target) ==
    LET g == ParentOf(t, target)
        k == IndexOf(t[g], target)
        gone == IF action = "replace" THEN {target} ELSE {}
        rest == k + Cardinality(gone)
        at == [t EXCEPT ![g] = SubSeq(@, 1, k - 1) \o <<n>> \o SubSeq(@, rest, Len(@))]
    IN  [h \in DOMAIN t \ gone |-> at[h]]

Linked(t, n, action, target) ==
    IF action \in {"head", "tail"} THEN LinkedInto(t, n, action, target)
                                   ELSE LinkedAt(t, n, action, target)

\* Group_New also makes the group's own, empty, list of children.
Entered(t, n, action, target) ==
    LET linked == Linked(t, n, action, target)
    IN  IF n.role = "group"
          THEN [g \in DOMAIN t \cup {n.id} |-> IF g = n.id THEN << >> ELSE linked[g]]
          ELSE linked

\* Mutant of Deleted: the children of a deleted group stay.
DeletedAlone(t, id) ==
    [g \in DOMAIN t |-> OtherThan(t[g], id)]

\* Node_Delete: the node leaves its parent, and a group takes its children
\* with it.
Deleted(t, id) ==
    [g \in DOMAIN t \ {id} |-> OtherThan(t[g], id)]

\* Group_DeleteAll, of a group of synths.
Emptied(t, group) == [t EXCEPT ![group] = << >>]

\* Whether the target of a command is found: Msg_GetGroup or Msg_GetNode.
TargetFound(t, c) ==
    IF c.action \in {"before", "replace", "free"}
      THEN c.target \in Ids(t)
      ELSE c.target \in DOMAIN t

\* Node_New refuses an id in use, or one node more than there is room for.
NodeRefused(t, c) == c.node.id \in Ids(t) \/ Cardinality(Ids(t)) >= MaxNodes

Makes(c) == c.action \in {"head", "tail", "before", "replace"}

\* Whether the server refuses a command, which it only logs.
Refuses(t, c) ==
    \/ ~TargetFound(t, c)
    \/ Makes(c) /\ NodeRefused(t, c)

\* meth_s_new, meth_g_new, meth_g_freeAll and meth_n_free
Performed(t, c) ==
    IF Makes(c) THEN Entered(t, c.node, c.action, c.target)
    ELSE IF c.action = "freeAll" THEN Emptied(t, c.target)
    ELSE Deleted(t, c.target)

\* The audio thread performs the bundle with the lowest stamp.
Perform ==
    /\ queue # << >>
    /\ queue' = Tail(queue)
    /\ LET c == Head(queue) IN
         IF Refuses(tree, c)
           THEN /\ refused' = refused \cup {<<c.node.worm, c.node.role>>}
                /\ UNCHANGED tree
           ELSE /\ tree' = Performed(tree, c)
                /\ UNCHANGED refused
    /\ UNCHANGED <<clientVars, lost, setBack>>

\* A note's envelope is over: its doneAction frees its synth.
NoteEnds(n) ==
    /\ n \in Nodes(tree)
    /\ n.role = "note"
    /\ tree' = Deleted(tree, n.id)
    /\ UNCHANGED <<clientVars, queue, refused, lost, setBack>>

\* A bundle is lost on the way: sendto fails, the socket's buffer or the
\* scheduler's queue is full.
Lose(k) ==
    /\ k \in DOMAIN queue
    /\ lost < MaxLost
    /\ lost' = lost + 1
    /\ queue' = SubSeq(queue, 1, k - 1) \o SubSeq(queue, k + 1, Len(queue))
    /\ UNCHANGED <<clientVars, tree, refused, setBack>>

\* Bundle l is scheduled ahead of bundle k, which was sent before it: the
\* clock has been set back in between, or their stamps are equal and the
\* server's heap, which is not stable, takes them out the other way round.
Overtake(k, l) ==
    /\ k \in DOMAIN queue /\ l \in DOMAIN queue /\ k < l
    /\ setBack < MaxSetBack
    /\ setBack' = setBack + 1
    /\ queue' = SubSeq(queue, 1, k - 1) \o << queue[l] >> \o
                SubSeq(queue, k, l - 1) \o SubSeq(queue, l + 1, Len(queue))
    /\ UNCHANGED <<clientVars, tree, refused, lost>>

Next ==
    \/ \E w \in Worms : MantleSynths(w)
    \/ \E w \in Worms : EatEffect(w)
    \/ \E w \in Worms : Fire(w)
    \/ \E w \in Worms : DismantleSynths(w)
    \/ Perform
    \/ \E n \in Nodes(tree) : NoteEnds(n)
    \/ \E k \in DOMAIN queue : Lose(k)
    \/ \E k, l \in DOMAIN queue : Overtake(k, l)

Spec == Init /\ [][Next]_vars

\* The audio callback runs for ever.
FairSpec == Spec /\ WF_vars(Perform)

-----------------------------------------------------------------------------
\* Group ids have not yet reached the ids of synths.
GroupsFit == lastGroupID <= NodeBase

\* The server has room for every node ever made.
Roomy == 1 + MaxIssued + Cardinality(Worms) <= MaxNodes

\* Nothing has gone wrong on the way to the server.
Reliable == lost = 0 /\ setBack = 0

Owned(w) == { n \in Nodes(tree) : n.worm = w }
Awaited(w) == { queue[k].node.role : k \in { l \in DOMAIN queue : queue[l].node.worm = w } }

ServerTypeOK ==
    /\ lastNodeID \in Nat /\ lastGroupID \in Nat
    /\ life \in [Worms -> {"unborn", "alive", "cleared", "clearedTwice"}]
    /\ groupID \in [Worms -> Int]
    /\ outputNodeID \in [Worms -> Int]
    /\ activeEffectID \in [Worms -> Int]
    /\ queue \in Seq(CommandSet)
    /\ tree \in [DOMAIN tree -> Seq(NodeSet)]
    /\ DOMAIN tree \subseteq Nat /\ Root \in DOMAIN tree
    /\ refused \subseteq Worms \X Roles
    /\ lost \in 0 .. MaxLost /\ setBack \in 0 .. MaxSetBack

\* The groups of the server.
Groups == { n \in Nodes(tree) : n.role = "group" }

\* No two nodes of the server have the same id, and the groups that have a
\* list of children are those in the root's list, whatever is lost, late or
\* freed twice, and also when a long session has counted group ids up to
\* the ids of synths.
TreeWellFormed ==
    /\ \A g, h \in DOMAIN tree :
         \A k \in DOMAIN tree[g], l \in DOMAIN tree[h] :
            tree[g][k].id = tree[h][l].id => g = h /\ k = l
    /\ DOMAIN tree = {Root} \cup { n.id : n \in Groups }
    /\ Groups \subseteq Elements(tree[Root])

\* Worms never get into each other's groups: every synth of a group is of
\* the worm the group was made for, whatever was lost or overtaken, although
\* the client that keeps the ids is never answered and a group may have been
\* refused because a synth has its id.
OwnGroupOnly ==
    \A m \in Groups : \A n \in Elements(tree[m.id]) : n.worm = m.worm

\* The signal path: in a worm's group a connector is the last node, and an
\* effect stands directly before it, so that every note and the effect are
\* computed before what they feed, with any losses and overtakings.
SignalPath ==
    GroupsFit =>
        \A g \in DOMAIN tree \ {Root} : \A k \in DOMAIN tree[g] :
            /\ tree[g][k].role = "output" => k = Len(tree[g])
            /\ tree[g][k].role = "effect" =>
                  k = Len(tree[g]) - 1 /\ tree[g][k + 1].role = "output"

\* If nothing is lost or overtaken and there is room, a worm that is not
\* cleared ends up with the connector and the effect it believes it has.
VoiceAsBelieved ==
    \A w \in Worms :
        (/\ life[w] = "alive"
         /\ Reliable /\ GroupsFit /\ Roomy
         /\ Awaited(w) = {})
        => /\ groupID[w] \in DOMAIN tree
           /\ LET voice == tree[groupID[w]] IN
                /\ voice # << >> /\ voice[Len(voice)].id = outputNodeID[w]
                /\ activeEffectID[w] # Nil =>
                      Len(voice) > 1 /\ voice[Len(voice) - 1].id = activeEffectID[w]

\* If nothing is lost or overtaken and there is room, the server refuses only
\* the notes of worms already cleared, and a second dismantling.
OnlyTheClearedAreRefused ==
    (Reliable /\ GroupsFit /\ Roomy) =>
        \A w \in Worms, role \in Roles : <<w, role>> \in refused =>
            \/ role = "note" /\ life[w] \in {"cleared", "clearedTwice"}
            \/ role \in {"free", "freeAll"} /\ life[w] = "clearedTwice"

\* Once the server has freed a cleared worm's group, the worm stays silent:
\* the notes its sequence keeps sending find no group.
ClearedStaySilent ==
    \A w \in Worms :
        (/\ life[w] \in {"cleared", "clearedTwice"}
         /\ Reliable /\ GroupsFit
         /\ "free" \notin Awaited(w))
        => Owned(w) = {}

\* If nothing is lost or overtaken, a dismantled worm's nodes are all freed
\* some time, whatever else is still queued.
DismantledGetFreed ==
    \A w \in Worms :
        (life[w] \in {"cleared", "clearedTwice"} /\ GroupsFit) ~>
            (Owned(w) = {} \/ ~Reliable \/ ~GroupsFit)

=============================================================================
