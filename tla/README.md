# TLA+ specification of the MF-TDMA/DAMA satellite link

This directory specifies and verifies the ns-2 extension in `src/`: a simulator
of a satellite return link on which terminals ask a central allocator for
capacity (DAMA) and send in the bursts of a multi-frequency TDMA superframe.
TLC checks small instances, TLAPS proves the theorems for every instance.

## 1. The system

A geostationary bent-pipe satellite connects a hub and the terminals. All of
them have the same stack; the hub also holds the allocator.

    LL (RLE | ATM | MPEG)  ->  PrioFid queue  ->  MAC  ->  phy, satellite
                                    |              ^ |
                               Requester --CR------+ +-- TBTP <- Allocator (hub)

| part | source | state | operations | interacts with |
|---|---|---|---|---|
| `AllocatorMFTDMA` | `src/src/mac-allocator.*` | requests, deficits, cell grid, busy masks, search position | `rcv_req`, `allocation` (reset, three passes, report, carry-over), configuration commands | gets capacity requests (CR) from the hub's MAC, broadcasts the burst time plan (TBTP) |
| configuration helpers | `src/src/helpfun.tcl` | number of slots, masksize, rules | `new-frame`, `add-rule`, `cra`, `setup-geolink` | set up the allocator |
| `MacTdmaDama` | `src/src/mac-tdmadama.*` | the packet taken from the queue, slot statistics | `btp_decoding`, `slotHandler`, `recv`, `sendUp` | scheduled by the TBTP, pulls packets from the queue, passes packets to the LL |
| `MacRle` / `RleLL` | `src/src/mac-rle.*`, `src/src/rle-encap.*` | packets being fragmented, sequence numbers, reassembly contexts | `sendDown`, `slotHandler`, `sendUp`, `get_context` | as above, with fragmentation inside the burst |
| `PrioFid` | `src/src/prio_fid.*` | linked list ordered by priority | `enque`, `deque` | between LL and MAC |
| `AtmLL` | `src/src/atm-encap.*` | reassembly lists per virtual circuit | `sendDown`, `send_frags`, `sendUp`, `reset` | fills the queue with cells |
| `MpegLL` | `src/src/mpeg-encap.*` | one packing buffer per destination, reassembly | `sendDown`, timer, `sendUp` | fills the queue with cells |
| `RequesterCombiner` | `src/src/mac-requester.*` | rate estimate, window of requested volumes | periodic `handle`, `rate`, `vol` | reads the queue, sends CRs |
| `TdmaDamaPhy` | `src/src/phy-tdmadama.*` | none | random loss of bursts | below the MAC |
| `Voice` (source and scoring) | `src/src/voicemodel.cc` | burst, sequence number, loss estimate, ring of delays, score | `timeout`, `process_data`, `reset`, `update_score` | an application at both ends of the link |
| `fullrun` | `src/utils/fullrun.c` | thread pool, sample tree | runs simulations until they converge | separate program, starts the simulator |
| `analy` | `src/utils/analy.c` | counters of an interval, ring of waiting packets | one step per record | separate program, reads the trace of a queue |

The simulator is single threaded: handlers run to completion in the order of
the event list. What is hard is what happens between events: requests that
arrive between superframes, bursts lost on the air, fragments that continue in
a later burst, queues that fill while a packet is half sent, state that is
carried from superframe to superframe. `fullrun` is the only part with threads.

What makes each part correct:

- **Allocator.** A terminal is never told to send twice at the same time. The
  plan that is sent, the grid and the counters say the same. Capacity is not
  left idle while somebody who may use it is owed some. Nobody gets more than he
  asked for by a burst or more. The search ends, is fair in slot mode, and a
  burst is in a frame that a rule of its terminal allows (of these three the first and the
  last do not always hold: section 6).
- **Configuration.** The busy masks divide evenly into the timeslots of every
  frame, in whatever order frames and nodes are added; the Tcl side and the C++
  side count the same slots.
- **Queue.** The linked list is sound; the most urgent packet goes first and
  packets of one priority keep their order.
- **Links (RLE, ATM, MPEG).** Without losses everything arrives; with losses
  nothing is delivered that was not received whole, nothing twice, nothing out
  of order, and whatever is thrown away is explained by a loss.
- **Requester with MAC and allocator.** Nothing is asked for twice, the queue
  drains although requests and plans are lost, capacity is given back.
- **Voice.** The loss estimate is the loss since the last reset, whatever either end
  does in between; the score is the best one that the last delays allow.
- **analy.** Every row agrees with what happened in its interval; a packet that waits
  is found again when it leaves.
- **fullrun.** Samples are counted once although the code works on globals, the
  printed estimate is one that met the stopping rule, the program ends.

The hazards of the code behind these properties are listed in `PROJECT.json`
with their lines and the properties that watch them.

## 2. Plan

| order | module | models | composes | status |
|---|---|---|---|---|
| 1 | `AllocatorMFTDMA`, `MCAllocator`, `AllocatorProofs` | the radio resource manager | | done |
| 2 | `SuperframePlan`, `DamaProofs` | configuration of the superframe | discharges an assumption of 1 | done |
| 3 | `PrioOps`, `PrioQueue` (abstract), `PrioFid`, `MCPrioFid`, `PrioFidProofs`, `SequenceLemmas` | the interface queue | `PrioFid` implements `PrioQueue` | done |
| 4 | `PacketLink` (abstract) | what a link promises to the network layer | | done |
| 5 | `RleLink`, `RleLinkProofs` | RLE encapsulation and MAC | `PrioOps`; implements `PacketLink` | done |
| 6 | `AtmLink`, `MCAtmLink`, `AtmLinkProofs` | ATM encapsulation and MAC | `PrioOps`; implements `PacketLink` | done |
| 7 | `MpegLink`, `MCMpegLink` | MPEG/ULE encapsulation and MAC | `PrioOps`; implements `PacketLink` for senders with one next hop and one priority | done |
| 8 | `DamaLoop`, `DamaProofs` | requester, MAC, queue and hub | `AllocatorMFTDMA` as `Hub` | done |
| 9 | `VoiceCall`, `MCVoiceCall`, `VoiceCallProofs` | two `Voice` objects | on top of `PacketLink` | done |
| 10 | `QueueTrace`, `MCQueueTrace`, `UtilProofs` | `analy` | on top of `PrioQueue` | done |
| 11 | `FullRun`, `MCFullRun`, `UtilProofs` | the threads of `fullrun` | | done |
| 12 | proofs about all modules but `MpegLink`, with the refinements of `PrioQueue` and `PacketLink`; work conservation, the rotation and the accounts of the allocator | section 5 | | done |
| 13 | extensions | two senders in one RLE context; flows with several priorities in ATM; what MPEG promises with two next hops; theorems about `MpegLink` | | later |

Abstract specifications: `PrioQueue`, which `PrioFid` implements and the trace of
`QueueTrace` comes from; `PacketLink`, which the three links implement and the
call of `VoiceCall` runs on.

## 3. Modules

**`AllocatorMFTDMA`.** State: the C++ fields of the same names (`deficit`, `a`,
`cur_term`, `left_to_check`, `freeslots`, the grid, the masks, the TBTP, the
report). `RcvReq` is `rcv_req()`. `allocation()` is one event; it is split into
`BeginCRA`, `BeginRBDC`, `BeginVBDC` (a pass: `init_request_queues()`), one
action per way through an iteration of `assign_timeslot()` (`SkipSatisfied`,
`Place`, `StaleGrant`, `NoLuck`) and `FinishAllocation` (report, carry-over).
No request is received in between. `mode_` is a variable that is set at the start to one of `Modes`, as a script sets it.
`StaleGrant` is the iteration in which every
rule of the terminal is skipped and the test `if (frame)` reads what the local
variable had before. At the first iteration it is uninitialised: any frame.

**`SuperframePlan`.** The commands of a scenario script before `$ns run`:
creation of nodes (the MAC beyond `MAX_TERM` aborts the program), `install-allocator`,
`new-frame`, `add-rule` (which exits for a MAC of another class: `RefuseRule`).
`new-frame` tests its arguments before anything is done (`RefuseFrame`), but the length of
the mask after the frame was appended and the mask multiplied: `OverlongFrame` leaves
that state behind, with the slots not yet counted in Tcl, and ends the script. So
`SuperframeUsable` speaks of scripts that go on, `MaskDivides` of all.
Its results are the constants of `AllocatorMFTDMA`.

**`PrioOps`, `PrioQueue`, `PrioFid`.** `PrioFid` has `head_`, `tail_`, `len_` and
a `next_` pointer for every packet, as `enque()` manipulates them. A packet that
is outside has any pointer: it was in other queues. `PrioOps` is the same
operation on sequences (`Insert` puts a packet behind the k it does not precede,
`PutBehind`) and is what the links use; `EnqueInserts` ties the two.

**`PacketLink`.** The link as the network layer sees it: packets taken, those all
parts of which have reached their station, and those passed up, which are whole,
for this station, none twice, and in order within a flow. What a flow is differs: a
sender and priority (RLE), a virtual channel (ATM), a sender (MPEG). `Kept` are the flows
to which the promise is made: all of them for RLE and ATM, for MPEG those of the senders
with one next hop and one priority. `KeepsPromise` of each link is this specification
under a refinement mapping; for RLE and MPEG a packet is whole when as many bytes as it has
were heard, for ATM `Counted` says when the receiver may take it for whole.

**`RleLink`.** `Send` is `RleLL` up to the queue, `Slot` the loop of
`MacRle::slotHandler`, `Arrive` the burst at all stations with `MacRle::sendUp`
for every fragment (`Decode`, whose cases exclude each other). Headers are kept in `pkts`, because fragments of
a packet share the header of the packet itself. Sequence numbers are modulo
`SeqnoMod` (256 in the code). A run starts either fresh or after `StartSeqnos`
packets, with the contexts as such a history leaves them (`InitSeqnos`). The run
ends where `sendUp` would read through a null pointer, so what the link has passed up
is the packets before that (`Passed`).

**`AtmLink`.** `Send` is `AtmLL::recv` and `send_frags`, with the admission test
and the second one of `DropTail`; `Slot` is `MacTdmaDama::slotHandler`, `Arrive`
is `sendUp` of MAC and link layer (`Reassemble`, for the cells that `ForMe` lets through),
`Reset` is `reset()`. A buffer is a set of cells, as no cell comes twice.

**`MpegLink`.** Cells under construction per next hop (`tx_buffer`), their timers
(`Timeout`), the one pointer `payload`, packing (`FillCells`, `Finish`),
reassembly by length (`TakeCell`, `TakeFrag`). A cell is a copy of the packet for which it
was opened (`NewCell`), with its priority, and `PrioFid` sorts cells by it. `Traffic` says to which
next hops, with which priorities and what sizes of packets a station sends; `OneHop` and `Plain` are the
stations to which the properties make their promises.

**`DamaLoop`.** `Request` is the requester's `expire()` and `dorequest()`,
`BtpDecoding`, `SlotHandler`, `RecvControl` are those of the MAC, `Allocate` and
`SendPlan` are steps of the allocator, an instance of `AllocatorMFTDMA` with one
terminal besides the hub. A request is due once in a superframe, and at once after
a start (`resched(0.0)`). Requests and plans travel in channels that may lose
them. Bytes are counted in cells, a timeslot holds one.

**`VoiceCall`.** `Start`, `Stop`, `Reset` are what a script may do to a `Voice` object,
`Timeout` is `timeout()` (with `next_interval()`), whose packet the link takes or
drops; `ProcessData` is `process_data()`, a step of the link in which it passes up a
packet; `UpdateScore` is `rscore()`, which leaves the buffer of delays sorted (`Sorted`).
Scores are integers with penalties that grow with loss and delay, and loss ratios
are pairs of integers, so that equality is exact.

**`QueueTrace`.** `Come`, `Go`, `Lose`, `Refuse` and `Received` are the events of a queue
that the simulator traces, with time advancing between them; each writes its
records and `Read`, the body of the loop of `main()`, consumes them. Time in ticks, while
`analy` adds up `smp` in doubles: that matters where a record comes at the very end of an
interval, and `Late` says whether it falls into that interval or, as rounding goes, into
the next (`RoundedUp`: with `smp` 0.1 those that end at 0.8 but not at 0.3). The bits go
with the packets and are left out.

**`FullRun`.** One program counter per thread. `Loop` to `Columns` are
`sched_run()`, `SaveData`, `Value`, `InsertValue`, `Finish` are `save_data()` with
the termination condition in `Finish` and `Decide` and `update_stats()`, column by
column, in `UpdateStats`; `OutputResults` is the end of `main()`, `SigQuit` the key
Ctrl-\ (Ctrl-C prints and changes nothing: what it shows is a property of every state). The loop
over the columns (at most `MAX_OUTPUT`) is split at `c_value = smp[c_index]`, so that the model would
show threads that disturb each other through the globals. Reading `cols` and
`end_run` is not protected in the code and is a step of its own here.

The MC modules hold the values of constants that a `.cfg` cannot write.

## 4. Runs

| run | instance | shows |
|---|---|---|
| `AllocTwoFrames` | 2 terminals and a hub with a CRA and a rule of its own, frames of 2x2 and 1x3 slots, mask of 6 bits, both modes, best fit, debits carried over | `TypeOK`, `TimeExclusive`, `GridMatchesPlan`, `FreeslotsAreFree`, `WorkConserving`, `NoOverGrant`; `SearchEnds`: the search ends, or everybody is owed bytes, nobody can be placed and cells are free (`Spinning`, which is reached) |
| `AllocOneFrame` | 3 terminals and hub, one frame of 2 slots, slot mode, first fit, more demand than slots, one terminal with a SMALL rule alone | `LedgerAgrees`, `SlotModeRotates`, `ServedAgain` |
| `PlanSetup` | up to 3 frames, arguments at and beyond each limit, 3 MACs where 2 are allowed | `MaskDivides`, `SuperframeUsable` (`TypeOK` is proved) |
| `PrioFidList` | 4 packets, 2 of equal priority, stale pointers | `ListSound`, `EnqueInserts`, `ServesInOrder` (refinement of `PrioQueue`) |
| `RleLink` | 3 packets of a sender, 2 priorities, 2 receivers, losses or none, fresh or with 8-bit sequence numbers about to wrap | `TypeOK` (with `BurstFits`), `PartialLeads`, `KeepsPromise` (refinement of `PacketLink`), `DropExplained`, `EventuallyUp` |
| `RleNullFinding` | 3 packets, losses | violates `NeverNull` |
| `AtmLink` | 3 packets of 1 or 3 cells, 2 flows, a full queue, losses or none, resets | `AllOrNone`, `BufferCurrent` (with `TypeOK`), `KeepsPromise`, `DropExplained`, `EventuallyUp` |
| `MpegLink` | 3 packets of part of a cell, 2 or 3 and more cells, of 3 senders: one plain, one with 2 priorities, one with 2 next hops; 2 receivers, losses or none | `CellSound` (with `TypeOK` and the timers) and `OnlyWholeGoesUp` for senders with one next hop, `KeepsPromise`, `WholeIsDelivered`, `EventuallyUp` for the plain one, whatever the others send |
| `DamaLoop` | 1 terminal, 2 cells, window of 2, two superframes in a request period, volume capped at 1 cell, losses, requester stopped and started, twice at most | `WindowSound`, `Drains`, `Releases` |
| `VoiceCall` | 2 ends, 4 packets of one of them, delays of 1 and 10, ring of 3 delays, any packet lost, starts, stops and resets at any time | `LossMeasured` (with `TypeOK`), `ScoreIsBest` |
| `QueueTrace` | 4 packets, 3 of the flow, 2 priorities, room for 2 in the queue, ring of 4 entries, pauses of 0, 2 or 5 ticks, interval of 2, the third of which ends too early in doubles | `RowsAgree`, `BacklogHolds` (with `TypeOK`) |
| `FullRun` | 2 threads, up to 5 runs, `refresh` 2, 2 columns, the second a mean or a percentile that needs more than 2 or 4 samples, other outputs, no command | `SamplesCounted`, `OutcomeSound`, `Terminates` |

Every property has a mutant in `PROJECT.json`: a changed definition, as a
plausible bug would change it, with which the run finds the property violated.

**Bounds.** *Allocator*: two frames with 2 and 3 timeslots are the smallest whose
slot boundaries do not coincide; rates and volumes are above the size of a
burst and, for the long one, no multiple of it, in `AllocOneFrame` also more than the
superframe holds; `MaxVolume` bounds what accumulates
between two superframes, deficits are bounded by the code itself
(`max_req_buf_`). The number of superframes is not bounded.
Either mode is chosen at the start. In slot mode
the hub's CRA and the demand of the terminals exceed what the timeslots of one
transmitter are worth while cells stay free, which is what `Spinning` needs. *Links*: a property
about reassembly involves the packet, the one before it and the leftovers of one
more, hence three packets. For MPEG three small ones share a cell, and a packet of 513
bytes behind one of 200 leaves one cell of each priority and a shared one between them. Sizes are
picked so that a packet fits in a burst, is cut in two, or in three.
`MaxAir` bounds the bursts under way, which only lie between sender and
receiver and cannot overtake each other; 2 is used where the properties speak
of receivers that lag behind. The sequence numbers of RLE have their 8 bits; a run
that starts at 255 wraps with its first packets (what happens after 255 packets to
somebody else is in section 6). *VoiceCall*: a ring of three delays is full with three
packets and wraps with the fourth; two lost packets are lost before, between or
behind those received. Only one end sends, as in `voip_atm.tcl`; the objects share
nothing but the link. *QueueTrace*: the pauses put records inside an interval, at
its end, with and without rounding, and more than an interval apart; four entries for at most two packets
that wait leave room for one that is leaked and for the search to go round; one
of the uninitialised numbers is that of a packet. *DamaLoop*:
two cells and a window of two requests suffice for a request that is lost, its
neighbour that is not, and the round in which the lost one leaves the window.
*FullRun*: with `refresh` 2, `min_runs` 1 and `max_runs` 3 the run may stop by
convergence at 2 or by the maximum at 4, with the other thread still at work; a
percentile that needs more than 4 samples never gets an estimate.

**Deadlock** is checked in the allocator's runs, `PrioFidList` and `DamaLoop`. The
others stop by design: packets to send are bounded, a script ends, a program exits.

**Fairness.** `AllocatorMFTDMA`: weak, on the allocation: the poll timer is
rescheduled on every expiry and `allocation()` is not preempted. ATM and MPEG: weak, on
the timeslots of a sender that has something to send (granting them is the
subject of the other modules), on the timer of a cell, on the channel; MPEG: the
sender has nothing on the air again and again. RLE: a sender's queue is empty or its
burst under way again and again, and so is the channel empty, which says the same
of the two with less work for TLC. Liveness of the links is claimed for runs without
losses: nothing is sent again. `DamaLoop`: weak on allocations;
strong on what happens between them (timeslots, arrival of requests and plans, the
request timer), since a long allocation interrupts them only in the model; strong
on requests for volume and plans with bursts that are *not* lost, as the error
model drops each independently with probability below one. Nothing obliges
a packet to arrive or the requester to be started. `FullRun`: weak, per thread;
every simulation ends.

## 5. Proofs

The theorems hold for every value of the constants that the `ASSUME`s of the modules
allow: any number of stations, terminals, frames, packets, threads, columns; any rules,
sizes and limits; any sequence of requests and losses. Some have a further hypothesis:
`WellRuled` (a terminal that can be owed something has a rule without the SMALL
condition; what the other ones are granted is in section 6),
`IntegerScore` (the coefficients of the voice score are integers) and `FineScore`
(a larger loss costs more, as the logarithm in the code does; rounded to integers it must
be scaled so that no two losses of `MAX_D_SAMP` packets cost the same), for the
refinement of RLE, `OwnContexts` and `InReach`. `OwnContexts` says that senders
are numbered below 64, as with 512 buckets of 8 priorities two numbers 64 apart meet
in one context. `InReach` is a condition on every state of a behaviour, not on its length: a
fragmented packet is one of the first 255 of its flow, or follows within 256 of them one for
the same station that was heard to the end. It holds for ever if a station hears one in 256
of the fragmented packets of a flow, counting those for other stations; one that misses
a whole round may put halves of two packets together (section 6).

| theorem | statement | argument |
|---|---|---|
| `DamaProofs!ConfigTyped` | `[]TypeOK` | by cases of `Next` |
| `DamaProofs!MaskDivided` | `[]MaskDivides` | a product stays a multiple of its factors. This is `MaskAssumption` of the allocator |
| `DamaProofs!CellsCounted` | `[]SuperframeUsable` | as long as the script goes on: one frame more adds its carriers times its timeslots to both counts, and the frame with too long a mask ends the script |
| `DamaProofs!WindowIsSound` | `[]WindowSound` of `DamaLoop` | `WindowInv`: the n latest requests of the window ask for no more than the queue held at one of them, for every n (below) |
| `AllocatorProofs!TypeCorrect` | `[]TypeOK` | one lemma per kind of step |
| `AllocatorProofs!PlanInvariant` | `WellRuled` implies `[]PlanInv` | see below |
| `AllocatorProofs!TransmitterExclusive` | `WellRuled` implies `[]TimeExclusive` | from `PlanInv` |
| `AllocatorProofs!PlanIsGrid`, `FreeslotsCounted` | `WellRuled` implies `[]GridMatchesPlan`, `[]FreeslotsAreFree` | parts of `PlanInv` |
| `AllocatorProofs!NoWorkIsLeft` | `WellRuled` implies `[]WorkConserving` | `RoundChecked`: the terminals since `left_to_check` was last reset are satisfied or fit nowhere, and what was booked since fits nobody better |
| `AllocatorProofs!SlotsRotate` | `[]SlotModeRotates` | `RoundFair`: after burst m every terminal gets one too, needs none, or is looked at before the terminal of burst m is again |
| `AllocatorProofs!CreditBounded` | `[]NoOverGrant` | only what is owed is granted, and only the last burst may be too long |
| `AllocatorProofs!AccountsAgree` | `[](LedgerAgrees /\ Len(tbtp) <= slot_count_)` | `Ledger`: a counter is the sum of the bursts in the plan, in the middle of a pass too, whatever the rules |
| `PrioFidProofs!ListInvariant`, `ListIsSound` | `[]ListInv`, `[]ListSound` | the pointers from `head_` spell a sequence (below) |
| `PrioFidProofs!EnqueIsInsert` | `Spec => EnqueInserts` | the search of `enque()` stops where `Insert` puts the packet |
| `PrioFidProofs!ListServesInOrder` | `Spec => ServesInOrder` | the list refines `PrioQueue`: its head is the first among the most urgent |
| `RleLinkProofs!LinkInvariant`, `TypeCorrect`, `PartLeads` | `[]LinkInv`, `[]TypeOK` with `BurstFits`, `[]PartialLeads` | queues are sorted by priority, so a packet that was cut is the first of its priority and a new one comes behind it |
| `RleLinkProofs!LinkKeepsPromise` | `OwnContexts` implies `Spec /\ []InReach => KeepsPromise` | refinement of `PacketLink` by `PromiseInv` (below): sending takes a packet, a slot stutters, and a closing fragment is accepted only by a context that holds all of its packet, as numbers less than a round apart are equal when they are equal modulo 256 |
| `AtmLinkProofs!LinkInvariant`, `BufferIsCurrent` | `[]LinkInv`, `[]BufferCurrent` | cells of a channel are in order from the queue to the receiver |
| `AtmLinkProofs!LinkKeepsPromise` | `Spec => KeepsPromise` | refinement of `PacketLink`: sending takes a packet, slots and resets stutter, a burst passes up what its cells complete |
| `AtmLinkProofs!QueueTakesAllOrNone` | `[]AllOrNone` | every part of a packet is in exactly one of queue, channel and receiver |
| `AtmLinkProofs!DropsAreExplained` | `Spec => DropExplained` (action property) | the buffer keeps what was heard of a packet until its last cell (`Retained`), and no burst has a gap (`Gapless`) |
| `UtilProofs!RunInvariant`, `TypeCorrect`, `MutualExclusion` | `[]RunInv`, `[]Types`, `[]Exclusion` | the thread between wait and post of the semaphore is the only one |
| `UtilProofs!EverySampleCounted` | `[]SamplesCounted` | `insert_sort()` keeps a tree ordered by size with exact counts (`IsTree`), `_get_list()` always knows how many values come before the subtree it is in (`Located`) |
| `UtilProofs!OutcomeIsSound` | `[]OutcomeSound` | a thread in flight runs one simulation more, and the update that stopped the run is the last |
| `UtilProofs!RowsAreRight` | `[]RowsAgree` of `QueueTrace` | `TraceInv`, part `Current`: the counters are those of the interval after the last row, which is the record's own when it is counted, and nothing has happened in a later one, whichever intervals rounding ends early |
| `UtilProofs!BacklogIsHeld` | `[]BacklogHolds` of `QueueTrace` | `TraceInv`, part `Sound`: a busy entry has the number of a packet that came, so a packet that comes has none yet |
| `VoiceCallProofs!CallInvariant`, `LossIsMeasured` | `IntegerScore` implies `[]CallInv`, `[]LossMeasured` | sequence numbers grow through the link, so the span from first to last is what was sent |
| `VoiceCallProofs!BestScoreFound` | `IntegerScore`, `FineScore` imply `ScoreIsBest` (action property) | what `rscore()` sorts is a rearrangement of the last delays (`BufferInv`), and the last of equal delays counts as late exactly what came later |

**Inductive invariants.** `TimeExclusive` is not inductive: it says nothing of the mask, by
which the code decides. `PlanInv` adds that the mask of a terminal covers the fields of all
its bursts (`MaskCoversPlan`), that the fields of different bursts of one terminal are
disjoint (`FieldsDisjoint`), and that nobody without a demand is ever owed anything
(`NeverOwed`, which with `WellRuled` excludes `StaleGrant`). A booking keeps these because
the cell was chosen with its field outside the mask. The theorem follows because bursts that
overlap in time share a bit of the mask (`OverlapSharesMask`), which is where it matters
that the timeslots of every frame divide the mask (`FieldShape`, `CrossScale`): with lengths
that do not divide it, field and time disagree.

`ListInv` of the list says there is a sequence of the packets inside, sorted by
priority and, within one, by arrival, of which `next_` gives the neighbours, `head_` and
`tail_` the ends and `len_` the length. `LinkInv` of RLE: a queue holds each packet once,
sorted, none of another station, a partly sent packet before all others of its priority;
what is in the air and in the contexts are packets that were sent. `PromiseInv` numbers the
fragmented packets of a flow and says (`Sending`) that queue and channel hold the fragments
of a flow in that order, that bytes heard, under way and waiting make up each packet, and
that a closing fragment carries the number of its packet modulo `SeqnoMod`; and of a
station (`Receiving`) that `exp_sn` of a context stands for a number which is not ahead of any
packet still under way and is past all that the station has heard to the end (`Stands`; with
`InReach` it is less than a round behind what arrives), and that the packet it holds is the one in progress or one
that a loss cut short. Equal numbers modulo `SeqnoMod` are then equal, and a packet that
was cut short has too few bytes for the check of the length, unless it is the right one.
`LinkInv` of ATM
orders the cells of a virtual channel through queue, bursts and what was heard
(`Flight`), and says of a cell in the buffer that no packet of its channel from its own
one on has ended (`Station`). `KeptInv` is the converse, for `DropExplained`: the
queue holds the last cell of every packet it holds a cell of, and what a station heard of a
packet is in its buffer until its last cell is heard, unless a reset took it or the last cell
passed unheard and the channel went on.
`RunInv` of `fullrun` says what the estimates were made
from at every place of `save_data()` and its loops (`Estimates`) and bounds the
simulations in flight when the run is stopped (`Stopping`); `Sums` says, of every column,
how many outputs its sum and its tree have counted while a thread is in the loop. Both walks
down a tree end because a child is younger than its parent, and the path of an insertion is
known by the parents (`up` of `TreeSound`). `CallInv` relates the
numbers a `Voice` object has received since its reset to those the link has taken, and
`BufferInv` its ring of delays to those of the packets: the same ones in some order until
the ring wraps (`Filled`), each at its number modulo the size until they are sorted (`InTurn`).
`TraceInv` of `analy` adds to the properties that busy entries name packets that came
before, that the last row is of an interval before the last record (`Behind`), and that
the rows due before a record end exactly with the interval before its own, which is
where the rounding of `Due` and that of `Interval` have to agree (`DueIs`, `IntervalIs`).
`WindowSound` speaks of all requests in the window, of which the next one replaces the
oldest; `WindowInv` therefore says the same of the n latest, for every n (`Covered`).
Those of the links hold for any loss; none needs the bounds of the runs.

**Sums, folds and local recursive functions** (`FoldLeft`, `SumFunctionOnSet`,
`LET f[i \in S] == ...`) are chosen functions. The proofs establish that a function with the
recursive property exists by a least counterexample, and argue with that property from then
on (`SequenceLemmas`: `SumStep`, `SumUnique`, `SumOfFold`, folds of sequences); only
the induction theorems of the library, which take an operator, are not used.

**A finding of the proofs**: two guards of the `CASE` in `Decode` of `RleLink` overlapped, where
TLC takes the first and a proof may not; they are disjoint now.

**Only model-checked**: all liveness (`SearchEnds`, `ServedAgain`, `Terminates` of `FullRun`,
`EventuallyUp`, `Drains`, `Releases`): there is no support for fairness and `ENABLED` here. Of
safety: everything about `MpegLink` (`CellSound`, `WholeIsDelivered`, `OnlyWholeGoesUp`,
`KeepsPromise`), and `DropExplained` of RLE. The hypothesis `InReach` of RLE is needed: TLC
finds a counterexample to `KeepsPromise` when `SeqnoMod` is as small as `MaxPackets` (the
whole round described in section 6).

## 6. What the code does not guarantee

One run is expected to fail, against a sentence in the code:

- `RleNullFinding`: after two losses a reassembly context has the right length
  and sequence number, but no packet: `sendUp()` uses a null pointer
  (`mac-rle.cc:391`; `mac-rle.h:26` says contexts need not be freed).

Met while modelling, and visible in the modules, without a run:

- In slot mode, the default (`defaults.tcl:13`), the search does not
  decrement `left_to_check` for a terminal that cannot be placed (`mac-allocator.cc:509`):
  if every terminal, the hub included, is owed bytes, none can be placed and
  slots remain, `allocation()` never returns, though `:458` says that a search that finds no
  terminal stops. The hub is owed bytes when it has a CRA: `webpage_download.tcl:267` and
  `webpage_upload.tcl:267` give it one, though they set continuous mode. `SearchEnds` is
  what holds, in both modes: the search ends, unless this happens; `AllocTwoFrames` gets there.
- A terminal with a SMALL rule alone is granted bursts from the frame
  of the iteration before (`mac-allocator.cc:492`), in slots that are booked for
  others or for nobody; `helpfun.tcl:74` says that the condition must be satisfied.
  No property claims that bursts keep to the rules. `StaleGrant` is that step;
  `AllocOneFrame` takes it, and `WellRuled` excludes it from the theorems that need to.
- MPEG: with two next hops in turn, `payload` points into the cell of the other
  one, so a fragment goes to the wrong station (`mpeg-encap.cc:249`; `mpeg-encap.h:24` says
  the cell's address is that of the destination). In the scenarios a terminal has one next
  hop, the hub. `MpegLink` has a station of this kind, to which nothing is promised.
- Continuous mode starves: a terminal that is always behind keeps all slots.
  With several frames the round robin of slot mode may resonate with the shape of the
  superframe; `ServedAgain` is claimed for one frame.
- `utilization_` counts again what a pass could not serve (`mac-allocator.cc:388`, `:419`).
- The TBTP has room for 256 descriptors, new-frame admits more slots (`mac-tdmadama.h:28`).
- `active_node_` of the allocator is stale if nodes are created after the last
  `new-frame` (`mac-allocator.cc:24`).
- ATM sends a packet up with a cell missing if one is left over from a packet whose
  last cell was lost (`atm-encap.cc:335`); `Counted` says exactly when.
- MPEG: a cell has the priority of the packet it was opened for (`mpeg-encap.cc:176`). With
  packets of two priorities the cells of a station overtake each other in the queue, also the
  cell in which one packet ends and the next begins; the receiver collects one packet at a time
  and throws away what it had of the other, so a packet may not go up although nothing was
  lost (priority 1 and 200 bytes, then priority 0 and 513 bytes). `OnlyWholeGoesUp` is
  what remains.
- MPEG: a sender's packet in progress may be left behind in its buffer when a buffer
  before it is freed, if another sender's number is equal modulo 100 (`mpeg-encap.cc:97`);
  a packet all bytes of which arrive is then not passed up.
- RLE: a receiver that has heard nothing of a priority while the sender sent 255
  fragmented packets to others is a whole round of sequence numbers behind; if the end of
  one packet and the beginning of the next are lost then, halves of the two may be
  passed up as one (`mac-rle.cc:379`). The starting states of the run exclude this.
- The score of `Voice` is that of the last packets until the ring of delays wraps
  after a score was computed: `rscore()` has sorted the ring in place, and what is
  overwritten is not the oldest delay (`voicemodel.cc:263`). `loss_playout_` and `delay_`
  keep their old values when no delay gives a positive score (`:274`).
- `analy` adds up its sampling interval in doubles (`analy.c:125`): a record at the very end of an
  interval is counted there or in the next one, as rounding goes.
- `analy` does not initialise `delay` (`analy.c:78`): the mean delay in the first row may
  be anything. A drop frees the first entry with the number of the packet, busy or not
  (`:166`); if that is one which was never used, the entry of the packet stays
  in the ring for ever, and with a full ring the search at `:149` does not end.
- The requester charges its window with the whole backlog, but the request is capped
  (`mac-requester.cc:187`); the rest is asked for when the window has gone round.
  With `avbdc_` alone nothing is requested (`:155`). The hub keeps the last rate it was told, also
  when the requester is stopped or its last request is lost: `Releases` needs the requester to run.
- A percentile of `fullrun` has no estimate until `num_samples * min(perc, 1-perc) > 5`
  (`fullrun.c:401`); if `max_runs` ends the run before, 0 is printed for it. A key that
  is missing in `.fullrun` does not get its default: `work` still holds the value of the
  key before it, or none (`:329`).
- `fullrun` runs more than `max_runs` simulations, by up to `refresh + num_jobs - 1`
  (`OutcomeSound` has the exact bound); with more threads than `refresh`
  the estimates that converged may be overwritten by later ones that did not.

## 7. Not modelled

- Drawing and printing of the superframe, traces, statistics counters that nothing reads.
- The smoothing of the requested rate (`alpha_`, default 0) and all floating point
  of `fullrun`: convergence is a free choice. The coefficients of the voice score.
- Channel, propagation, addresses and routing belong to the simulator; the random
  drop of `phy-tdmadama.cc` is the `lost` choice of the links.
- `MacTdmaDama` before `setmon`, when the queue is not blocked yet.
- The configuration file of `fullrun`; that a pipe is inherited by children of other
  threads only delays the end of a simulation.
- RLE with senders whose numbers differ by 64 (they share contexts) or timeslots
  shorter than a fragment header; MPEG with more than 100 stations.
