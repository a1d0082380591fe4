----------------------------- MODULE Partitions -----------------------------
(***************************************************************************)
(* One card, several handler processes (amiga/handler.c and                *)
(* amiga/parttable.c).  The handler of device name 0 is mounted on the     *)
(* whole card.  It reads the partition table, serves the first exFAT       *)
(* partition and publishes a DOS device node for each of the others; a     *)
(* node gets a handler process of its own when something touches its name. *)
(* A helper process, started once per mount, does that: for each name it   *)
(* uninhibits the handler and takes a lock.  When the card goes, the       *)
(* mounter inhibits every running handler; when one is back, it wakes only *)
(* the handler of name 0.  Nodes are never taken away again, so a handler  *)
(* published for one card may be woken while another is in the slot.       *)
(*                                                                         *)
(* Handler has what one of these processes does in detail; here a handler  *)
(* is what it serves and whether it is inhibited.                          *)
(***************************************************************************)
EXTENDS Naturals, SequencesExt, FiniteSetsExt

CONSTANTS
  Cards,         \* the cards that can be in the slot
  NoCard,        \* an empty slot
  None,          \* no node has this name
  Size,          \* sectors of a card
  Card,          \* what is on each card: see CardType
  MaxPartitions, \* EXFAT_MAX_PARTITIONS
  MaxLinks,      \* EBR_MAX_LINKS
  MaxName,       \* bound: the last device name (the code tries 32)
  Foreign,       \* the names that belong to other units
  MaxHelpers,    \* bound: helper processes at once, that of the card included
  Holders,       \* the names on which clients hold locks
  Mortal,        \* the names whose handlers are sent ACTION_DIE
  Allow          \* "blind": clients use names of earlier cards

Sectors == 0..(Size - 1)
Names == 0..MaxName

\* The first and the last sector.
Extents == {e \in Sectors \X Sectors : e[1] <= e[2]}
Whole == <<0, Size - 1>>

Types == {"unused", "gpt", "extended", "other"}

\* boot: the sectors with the signature of an exFAT boot sector; good: those at
\* which a volume can be mounted.  mbr is empty without a partition table.  ebr
\* has the EBRs by their sectors: a partition, whose start is relative to the
\* EBR, and a link, relative to the extended partition.
CardType ==
  [boot: SUBSET Sectors, good: SUBSET Sectors,
   mbr: Seq([type: Types, first: Nat, count: Nat]),
   ebr: UNION {[D -> [type: Types, rel: Nat, count: Nat,
                      link: Types, next: Nat]] : D \in SUBSET Sectors},
   gpt: Seq((Sectors \X Sectors) \cup {None})]

ASSUME CardsAssumption ==
  /\ Size \in Nat \ {0}
  /\ {MaxName, MaxPartitions, MaxHelpers} \subseteq Nat
  /\ NoCard \notin Cards
  /\ None \notin Extents
  /\ \A c \in Cards : Card[c].good \subseteq Card[c].boot

VARIABLES
  slot,     \* the card in the slot
  mounter,  \* what sagasd.device has to do next
  node,     \* the DOS device nodes of this unit: the extent of each name
  h,        \* the handler process of each name
  helper    \* what each activation process still has to do

vars == <<slot, mounter, node, h, helper>>

-----------------------------------------------------------------------------
(* The partition table *)

\* scan_extended(): follows the chain from the first EBR.
ScanExtended(c, start) ==
  LET walk[at \in Nat, links \in 0..MaxLinks] ==
        IF links = 0 \/ at \notin DOMAIN c.ebr THEN <<>>
        ELSE LET e == c.ebr[at]
                 first == at + e.rel
             IN (IF e.type # "unused" /\ e.count # 0 /\ first \in c.boot
                 THEN <<<<first, first + e.count - 1>>>> ELSE <<>>)
                \o (IF e.link = "unused" \/ e.next = 0 THEN <<>>
                    ELSE walk[start + e.next, links - 1])
  IN walk[start, MaxLinks]

\* scan_gpt().
ScanGpt(c) ==
  SelectSeq(c.gpt, LAMBDA e : e # None /\ e[1] <= e[2] /\ e[1] \in c.boot)

ScanEntry(c, e) ==
  CASE e.type = "unused" \/ e.count = 0 -> <<>>
    [] e.type = "gpt" -> ScanGpt(c)
    [] e.type = "extended" -> ScanExtended(c, e.first)
    [] OTHER -> IF e.first \in c.boot
                THEN <<<<e.first, e.first + e.count - 1>>>> ELSE <<>>

\* exfat_amiga_scan_partitions(), for the array of MaxPartitions entries.
ScanPartitions(c) ==
  IF 0 \in c.boot THEN <<Whole>>
  ELSE LET all == FlattenSeq([i \in DOMAIN c.mbr |-> ScanEntry(c, c.mbr[i])])
       IN SubSeq(all, 1, Min({Len(all), MaxPartitions}))

Table == [c \in Cards |-> ScanPartitions(Card[c])]

\* The partitions of a card that have a name other than 0.
Rest(c) == {Table[c][j] : j \in DOMAIN Table[c] \ {1}}

-----------------------------------------------------------------------------
(* State *)

\* st: "down" without a process, "up", inhibited and "released", inhibited and
\* "parked" with locks held, or "dead": DOS sends its packets to the port of a
\* process that has ended.  at: the extent it has mounted last; home: the card
\* it has mounted; by: the card for which it was started or woken then; next:
\* h->next_name_idx; pub: h->published.
HandlerState ==
  [st: {"down", "up", "released", "parked", "dead"},
   at: Extents \cup {None}, home: Cards \cup {NoCard}, by: Cards \cup {NoCard},
   held: BOOLEAN, next: Nat, pub: Seq(Names)]

Down == [st |-> "down", at |-> None, home |-> NoCard, by |-> NoCard, held |-> FALSE,
         next |-> 1, pub |-> <<>>]

\* The steps of activation_proc(), with the card whose names they go through.
Jobs == {"inhibit", "lock"} \X Names \X Cards

\* Types.  Every handler belongs to a node.
TypeOK ==
  /\ slot \in Cards \cup {NoCard}
  /\ mounter \in {"present", "gone", "parked", "wake"}
  /\ node \in [Names -> Extents \cup {None}]
  /\ h \in [Names -> HandlerState]
  /\ \A i \in Names : node[i] = None => h[i] = Down
  /\ helper \in [1..MaxHelpers -> Seq(Jobs)]

Init ==
  /\ slot = NoCard
  /\ mounter = "parked"
  /\ node = [i \in Names |-> IF i = 0 THEN Whole ELSE None]
  /\ h = [i \in Names |-> Down]
  /\ helper = [k \in 1..MaxHelpers |-> <<>>]

-----------------------------------------------------------------------------
(* Finding the extent to serve *)

\* What resolve_extent() works on: the DOS nodes and the handler's lists.
Named(n, i) ==
  [n EXCEPT !.pub = IF Len(@) < MaxPartitions THEN Append(@, i) ELSE @]

\* find_sibling_node().
Siblings(n, part) == {i \in Names \ {0} : n.node[i] = part}

\* The names publish_partition() can still give away.
FreeNames(n) == {i \in n.next..MaxName : n.node[i] = None /\ i \notin Foreign}

\* publish_partition(): a node that is there is used again, but only when
\* re-validating; otherwise the next free name.
Publish(n, part, revalidating) ==
  IF revalidating /\ Siblings(n, part) # {}
  THEN Named(n, Min(Siblings(n, part)))
  ELSE IF FreeNames(n) = {} THEN n
  ELSE LET i == Min(FreeNames(n))
       IN Named([n EXCEPT !.node[i] = part, !.next = i + 1], i)

\* Mutation: the names of the last scan are kept.
FreshStale(i) == [node |-> node, next |-> h[i].next, pub |-> h[i].pub,
                  ok |-> FALSE, at |-> h[i].at]

\* The start of resolve_extent(): nothing is published yet.
Fresh(i) == [node |-> node, next |-> h[i].next, pub |-> <<>>,
             ok |-> FALSE, at |-> h[i].at]

\* Mutation: the extent narrowed by the last mount is not derived again.
EnvecNarrowed(i) == IF h[i].at = None THEN node[i] ELSE h[i].at

\* spec_from_envec().
Envec(i) == node[i]

\* resolve_extent() of handler i: ok with the extent to serve, and the other
\* partitions published.  A node that does not start at sector 0 is a partition.
Resolve(i, revalidating) ==
  LET n == Fresh(i)
      parts == IF slot = NoCard THEN <<>> ELSE Table[slot]
  IN IF Envec(i)[1] # 0 THEN [n EXCEPT !.ok = TRUE, !.at = Envec(i)]
     ELSE IF parts = <<>> THEN n
     ELSE [FoldLeft(LAMBDA m, part : Publish(m, part, revalidating),
                    n, Tail(parts)) EXCEPT !.ok = TRUE, !.at = parts[1]]

-----------------------------------------------------------------------------
(* Starting, inhibiting and uninhibiting a handler *)

\* mount_fs() on the card in the slot.
Mountable(at) == slot # NoCard /\ at[1] \in Card[slot].good

\* Mutation: the helper only locks the names.
TodoLockOnly(pub) == [j \in 1..Len(pub) |-> <<"lock", pub[j], slot>>]

\* The names as activation_proc() goes through them.
Todo(pub) ==
  [j \in 1..(2 * Len(pub)) |->
    <<IF j % 2 = 1 THEN "inhibit" ELSE "lock", pub[(j + 1) \div 2], slot>>]

\* activate_partitions(): starts a helper process for the names; rest is what
\* the helpers have left to do.
Activate(pub, rest) ==
  IF pub = <<>> THEN helper' = rest
  ELSE LET idle == {k \in 1..MaxHelpers : rest[k] = <<>>}
       IN /\ idle # {}
          /\ helper' = [rest EXCEPT ![Min(idle)] = Todo(pub)]

Up(i, c, r) == [h[i] EXCEPT !.st = "up", !.at = r.at, !.home = slot, !.by = c,
                            !.next = r.next, !.pub = r.pub]

\* startup() in a new process, for a name of card c.  dol_Task is set before
\* mount_fs() is called and stays when that fails.
Startup(i, c, rest) ==
  /\ h[i].st = "down"
  /\ \E r \in {Resolve(i, FALSE)} :
     /\ node' = r.node
     /\ IF r.ok /\ Mountable(r.at)
        THEN /\ h' = [h EXCEPT ![i] = Up(i, c, r)]
             /\ Activate(r.pub, rest)
        ELSE /\ h' = [h EXCEPT ![i].st = IF r.ok THEN "dead" ELSE "down"]
             /\ helper' = rest

\* do_inhibit(FALSE), for a name of card c.  A released handler mounts again, a parked one goes on if
\* it finds its own card, and one that is not inhibited has nothing to do.
Uninhibit(i, c, rest) ==
  \/ /\ h[i].st = "released"
     /\ \E r \in {Resolve(i, TRUE)} :
           /\ node' = r.node
           /\ IF r.ok /\ Mountable(r.at)
              THEN /\ h' = [h EXCEPT ![i] = Up(i, c, r)]
                   /\ Activate(r.pub, rest)
              ELSE /\ h' = [h EXCEPT ![i].next = r.next, ![i].pub = r.pub,
                                     ![i].at = r.at]
                   /\ helper' = rest
  \/ /\ h[i].st = "parked"
     /\ h' = IF slot = h[i].home THEN [h EXCEPT ![i].st = "up"] ELSE h
     /\ helper' = rest
     /\ UNCHANGED node
  \/ /\ h[i].st = "up"
     /\ helper' = rest
     /\ UNCHANGED <<node, h>>

\* A packet to a name: DOS starts a handler where none runs.  One to a dead port
\* is never answered.
Inhibit(i, c, rest) == Startup(i, c, rest) \/ Uninhibit(i, c, rest)

LockName(i, c, rest) ==
  \/ Startup(i, c, rest)
  \/ /\ h[i].st \in {"up", "released", "parked"}
     /\ helper' = rest
     /\ UNCHANGED <<node, h>>

\* One step of activation_proc().
HelperStep(k) ==
  /\ helper[k] # <<>>
  /\ LET job == Head(helper[k])
         rest == [helper EXCEPT ![k] = Tail(@)]
     IN IF job[1] = "inhibit" THEN Inhibit(job[2], job[3], rest)
        ELSE LockName(job[2], job[3], rest)
  /\ UNCHANGED <<slot, mounter>>

-----------------------------------------------------------------------------
(* Clients *)

\* A client uses a name of the card in the slot.
Touch(i) ==
  /\ slot # NoCard
  /\ \/ i = 0
     \/ h[0].st = "up" /\ i \in ToSet(h[0].pub)
     \/ "blind" \in Allow
  /\ node[i] # None
  /\ Startup(i, slot, helper)
  /\ UNCHANGED <<slot, mounter>>

\* release_mount().
Released(x) == [x EXCEPT !.st = "released", !.home = NoCard, !.by = NoCard]

\* Locks are taken and, later, given back: release_if_idle().
Hold(i) ==
  /\ i \in Holders
  /\ h[i].st = "up" /\ ~h[i].held
  /\ h' = [h EXCEPT ![i].held = TRUE]
  /\ UNCHANGED <<slot, mounter, node, helper>>

Free(i) ==
  /\ h[i].held
  /\ LET x == [h[i] EXCEPT !.held = FALSE]
     IN  h' = [h EXCEPT ![i] = IF x.st = "parked" THEN Released(x) ELSE x]
  /\ UNCHANGED <<slot, mounter, node, helper>>

\* ACTION_DIE and the end of exfat_handler_main().
Die(i) ==
  /\ i \in Mortal
  /\ h[i].st \in {"up", "released"} /\ ~h[i].held
  /\ h' = [h EXCEPT ![i] = Down]
  /\ UNCHANGED <<slot, mounter, node, helper>>

-----------------------------------------------------------------------------
(* The card and the mounter *)

Pull ==
  /\ slot # NoCard
  /\ slot' = NoCard
  /\ mounter' = "gone"
  /\ UNCHANGED <<node, h, helper>>

\* do_inhibit(TRUE) for each handler that runs.
MounterInhibit(i) ==
  /\ mounter = "gone"
  /\ h[i].st = "up"
  /\ h' = [h EXCEPT ![i] = IF h[i].held THEN [h[i] EXCEPT !.st = "parked"]
                            ELSE Released(h[i])]
  /\ UNCHANGED <<slot, mounter, node, helper>>

MounterInhibited ==
  /\ mounter = "gone"
  /\ \A i \in Names : h[i].st \in {"down", "released", "parked"}
  /\ mounter' = "parked"
  /\ UNCHANGED <<slot, node, h, helper>>

\* A helper process of an earlier card may still run, within the bound.
Insert(c) ==
  /\ mounter = "parked"
  /\ \E k \in 1..MaxHelpers : helper[k] = <<>>
  /\ slot' = c
  /\ mounter' = "wake"
  /\ UNCHANGED <<node, h, helper>>

\* The handler of name 0 is started or uninhibited, until it accepts the card.
MounterUninhibit ==
  /\ mounter = "wake"
  /\ Inhibit(0, slot, helper)
  /\ mounter' = IF h'[0].st = "up" THEN "present" ELSE "wake"
  /\ UNCHANGED slot

MounterStep ==
  MounterInhibited \/ MounterUninhibit \/ \E i \in Names : MounterInhibit(i)

Next ==
  \/ Pull \/ MounterStep
  \/ \E c \in Cards : Insert(c)
  \/ \E i \in Names : Touch(i) \/ Hold(i) \/ Free(i) \/ Die(i)
  \/ \E k \in 1..MaxHelpers : HelperStep(k)

Spec == Init /\ [][Next]_vars

\* The mounter and the helpers go on with their work; nothing obliges users and
\* clients to do anything, except that locks on a card that has gone are given
\* back in the end.
Fairness ==
  /\ WF_vars(MounterStep)
  /\ WF_vars(\E i \in Names : Free(i) /\ h[i].st = "parked")
  /\ \A k \in 1..MaxHelpers : WF_vars(HelperStep(k))

FairSpec == Spec /\ Fairness

-----------------------------------------------------------------------------
(* Properties *)

\* i serves extent e of card c.
Serves(i, c, e) == h[i].st = "up" /\ h[i].home = c /\ h[i].at = e

\* A helper process that still ran when another card was put in has woken i on
\* that card, and its name 0 has no such partition to publish.
Astray(i) == i # 0 /\ h[i].by # h[i].home /\ h[i].at \notin Rest(h[i].home)

\* No two handlers serve the same sectors of a card: each would have a node
\* cache, a bitmap and a dirty flag of its own, and nothing (claim_partition()
\* is not called) refuses the second.
NoDoubleService ==
  \A i, j \in {x \in Names : h[x].st = "up" /\ ~Astray(x)} :
    i # j /\ h[i].home = h[j].home
      => h[i].at[2] < h[j].at[1] \/ h[j].at[2] < h[i].at[1]

\* However cards come and go, a partition has one device node:
\* publish_partition() finds the one published for an earlier card.
OneNodeEach ==
  \A i, j \in Names : node[i] # None /\ node[i] = node[j] => i = j

\* A partition has one device node and at most one handler at work, except for
\* handlers that an earlier card's helper process has woken.
ServedOnce == NoDoubleService /\ OneNodeEach

\* i serves what the partition table of its card lists.
Listed(i) == h[i].st = "up" => h[i].at \in ToSet(Table[h[i].home])

\* A handler serves only what the partition table of its card lists, unless a
\* helper process of an earlier card has woken it: the boot sector of an old
\* partition at the same place is not a volume.
OnlyListed == \A i \in Names : Listed(i) \/ Astray(i)

\* "A card with fewer partitions than the last one must not wake the last one's
\* leftovers" (resolve_extent()): no handler at all serves anything else.
LeftoversSleep == \A i \in Names : Listed(i)

\* Card c is in the slot and about to be accepted, with no locks of an earlier
\* card held and no handler dead.
Arrives(c) ==
  /\ slot = c /\ mounter = "wake" /\ h[0].st # "up"
  /\ \A i \in Names : h[i].st \notin {"parked", "dead"}

\* Partition j of the table of c is served, unless c is taken out.
Served(c, j) == slot # c \/ \E i \in Names : Serves(i, c, Table[c][j])

CanMount(c, j) == Table[c][j][1] \in Card[c].good

\* A card that is put in while no locks of an earlier card are held has every
\* partition served in the end, by the handler of name 0 or by one that was
\* parked with another card, if it stays in the slot.  A helper process that
\* still runs for an earlier card does not hinder it.  Dead handlers are
\* excepted, and so are the partitions behind one that cannot be mounted.
AllServed ==
  \A c \in Cards : \A j \in DOMAIN Table[c] :
    (\A k \in 1..j : CanMount(c, k)) => (Arrives(c) ~> Served(c, j))

\* "Force each published partition to mount, so its volume appears on Workbench"
\* (activation_proc()): every partition that can be mounted is served.
EachActivated ==
  \A c \in Cards : \A j \in DOMAIN Table[c] :
    CanMount(c, 1) /\ CanMount(c, j) => (Arrives(c) ~> Served(c, j))

\* A handler that was refused because of locks held on another card "wakes once
\* its locks are gone" (do_inhibit()), if the card has its partition.
WakesOnceFree ==
  \A i \in Names \ {0}, c \in Cards :
    (slot = c /\ mounter = "present" /\ node[i] \in ToSet(Table[c])
       /\ node[i][1] \in Card[c].good /\ h[i].st = "parked")
      ~> (slot # c \/ h[i].st \in {"up", "down"})

=============================================================================
