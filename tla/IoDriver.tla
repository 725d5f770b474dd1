------------------------------ MODULE IoDriver -------------------------------
(* The I/O driver's readiness words, the slab its resources live in, and the*)
(* intrusive list of krse/util.                                             *)
EXTENDS Naturals, Sequences, FiniteSets, SequencesExt

(***************************************************************************)
(* One slot of the I/O driver and the sockets that use it in turn          *)
(* (src/krse/io/driver/mod.rs, scheduled_io.rs, registration.rs,           *)
(* poll_evented.rs): the readiness word with its generation, the wakers of *)
(* the two directions, the driver that dispatches an edge-triggered event, *)
(* and a task per direction that reads or writes through PollEvented.  One *)
(* step per access to shared state; registering and taking a waker is one  *)
(* step (module AtomicWaker).  The kernel is external.                     *)
(***************************************************************************)

CONSTANTS
  Tasks,      \* the directions somebody uses: subset of {"rd", "wr"}
  GEN,        \* the number of generations before they wrap
  MaxSockets, \* bound: sockets that use the slot
  MaxEdges    \* bound: changes of a socket's state

VARIABLES
  kernel, edge, armed,     \* what the socket can do; an event is due; it is registered
  word, gen,               \* the slot's readiness word; the generation in the address
  waker,                   \* reader and writer: NoWaker, or the generation of the task's socket
  pc, cached, seen, woken, \* a task: where, its readiness cache, what it loaded, its wakeup
  clearing,                \* a task is in clear_*_ready: its poll returns Pending anyway
  drv, ev, took,           \* the driver: where, the event, the wakers it took
  gone, sockets, edges

socket == <<kernel, edge, armed>>
slot == <<word, gen, waker>>
task == <<pc, cached, seen, woken, clearing>>
driver == <<drv, ev, took>>
bounds == <<sockets, edges>>
vars == <<socket, slot, task, driver, gone, bounds>>

Bits == {"r", "w", "hup"}
Dirs == {"rd", "wr"}
NoWaker == GEN
NoEvent == [gen |-> 0, ready |-> {}]

\* Direction::mask: everything but writable is signalled through read.
mask(d) == IF d = "rd" THEN {"r", "hup"} ELSE {"w", "hup"}
Own(d) == IF d = "rd" THEN {"r"} ELSE {"w"}

Init ==
  /\ kernel = {} /\ edge = FALSE /\ armed = TRUE
  /\ word = [gen |-> 0, ready |-> {}] /\ gen = 0 /\ waker = [d \in Dirs |-> NoWaker]
  /\ pc = [d \in Dirs |-> "idle"] /\ cached = [d \in Dirs |-> {}] /\ seen = [d \in Dirs |-> {}]
  /\ woken = [d \in Dirs |-> FALSE] /\ clearing = [d \in Dirs |-> FALSE]
  /\ drv = "idle" /\ ev = NoEvent /\ took = {} /\ gone = FALSE /\ sockets = 1 /\ edges = 0

Goto(d, l) == pc' = [pc EXCEPT ![d] = l]
Quiet == \A d \in Dirs : pc[d] \in {"idle", "pending", "done"}
-----------------------------------------------------------------------------
(* The kernel                                                              *)

\* The socket becomes readable or writable, or is hung up: an edge.
Change ==
  /\ armed /\ edges < MaxEdges /\ edges' = edges + 1
  /\ \E b \in Bits \ kernel : kernel' = kernel \cup {b} /\ edge' = TRUE
  /\ UNCHANGED <<armed, slot, task, driver, gone, sockets>>
-----------------------------------------------------------------------------
(* Driver::turn and dispatch                                               *)

\* An event carries all the socket can do when it is fetched.
Turn ==
  /\ drv = "idle" /\ armed /\ edge /\ ~gone
  /\ edge' = FALSE /\ ev' = [gen |-> gen, ready |-> kernel] /\ drv' = "set"
  /\ UNCHANGED <<kernel, armed, slot, task, took, gone, bounds>>

\* ScheduledIo::set_readiness: an address of another generation is refused.
set_readiness(g, ready) ==
  word' = IF word.gen = g THEN [word EXCEPT !.ready = ready] ELSE word

\* The event is applied whatever the generation of the slot.
M_SetEventAnyGeneration ==
  /\ drv = "set" /\ word' = [word EXCEPT !.ready = @ \cup ev.ready]
  /\ drv' = "wr"
  /\ UNCHANGED <<socket, gen, waker, task, took, ev, gone, bounds>>

SetEvent ==
  LET f(r) == r \cup ev.ready IN
  /\ drv = "set" /\ set_readiness(ev.gen, f(word.ready))
  /\ drv' = IF word.gen = ev.gen THEN "wr" ELSE "idle"
  /\ ev' = IF word.gen = ev.gen THEN ev ELSE NoEvent
  /\ UNCHANGED <<socket, gen, waker, task, took, gone, bounds>>

Take(d, concerned) ==
  IF concerned /\ waker[d] # NoWaker
  THEN took' = took \cup {<<d, waker[d]>>} /\ waker' = [waker EXCEPT ![d] = NoWaker]
  ELSE UNCHANGED <<took, waker>>

TakeWriter ==
  /\ drv = "wr" /\ drv' = "rd" /\ Take("wr", ev.ready \cap {"w", "hup"} # {})
  /\ UNCHANGED <<socket, word, gen, task, ev, gone, bounds>>

TakeReader ==
  /\ drv = "rd" /\ drv' = "wake" /\ Take("rd", ev.ready \ {"w"} # {})
  /\ UNCHANGED <<socket, word, gen, task, ev, gone, bounds>>

\* A waker of a socket that is gone wakes nobody here.
Woken(ws) == [d \in Dirs |-> woken[d] \/ <<d, gen>> \in ws]

WakeTasks ==
  /\ drv = "wake" /\ drv' = "idle" /\ ev' = NoEvent /\ took' = {} /\ woken' = Woken(took)
  /\ UNCHANGED <<socket, slot, pc, cached, seen, clearing, gone, bounds>>
-----------------------------------------------------------------------------
(* PollEvented::poll_read, poll_write: a task that is woken polls again    *)

Poll(d) ==
  /\ d \in Tasks /\ armed /\ (pc[d] = "idle" \/ (pc[d] = "pending" /\ woken[d]))
  /\ woken' = [woken EXCEPT ![d] = FALSE]
  /\ Goto(d, IF gone THEN "done" ELSE IF cached[d] \cap Own(d) # {} THEN "take" ELSE "load")
  /\ UNCHANGED <<socket, slot, cached, seen, clearing, driver, gone, bounds>>

\* The cache says ready: take what is new without asking to be notified.
TakeReady(d) ==
  LET f(r) == r \ Own(d) IN
  /\ pc[d] = "take" /\ Goto(d, "io") /\ set_readiness(gen, f(word.ready))
  /\ cached' = [cached EXCEPT ![d] = @ \cup (word.ready \cap mask(d))]
  /\ UNCHANGED <<socket, gen, waker, seen, woken, clearing, driver, gone, bounds>>

\* Inner::register loads the readiness, registers the waker, and wakes it again if
\* the readiness it loaded concerns the direction.
Load(d) ==
  /\ pc[d] = "load" /\ seen' = [seen EXCEPT ![d] = word.ready] /\ Goto(d, "register")
  /\ UNCHANGED <<socket, slot, cached, woken, clearing, driver, gone, bounds>>

Register(d) ==
  /\ pc[d] = "register" /\ waker' = [waker EXCEPT ![d] = gen] /\ seen' = [seen EXCEPT ![d] = {}]
  /\ Goto(d, IF seen[d] \cap (IF d = "rd" THEN Bits \ {"w"} ELSE {"w"}) # {} THEN "self" ELSE "consume")
  /\ UNCHANGED <<socket, word, gen, cached, woken, clearing, driver, gone, bounds>>

WakeSelf(d) ==
  /\ pc[d] = "self" /\ Goto(d, "consume") /\ waker' = [waker EXCEPT ![d] = NoWaker]
  /\ woken' = [woken EXCEPT ![d] = @ \/ waker[d] # NoWaker]
  /\ UNCHANGED <<socket, word, gen, cached, seen, clearing, driver, gone, bounds>>

\* Readiness that was found is cached; the loop of poll_ready! ends, and
\* clear_*_ready wakes the task for it and has poll return Pending all the same.
Found(d, r) ==
  /\ cached' = [cached EXCEPT ![d] = @ \cup r]
  /\ woken' = [woken EXCEPT ![d] = @ \/ clearing[d]]
  /\ clearing' = [clearing EXCEPT ![d] = FALSE]
  /\ Goto(d, IF clearing[d] THEN "pending" ELSE "io")

\* Registration::poll_ready consumes the readiness of its direction, except hup.
Consume(d) ==
  LET f(r) == r \ Own(d)
      r == word.ready \cap mask(d) IN
  /\ pc[d] = "consume" /\ set_readiness(gen, f(word.ready))
  /\ IF r # {} THEN Found(d, r) ELSE Goto(d, "again") /\ UNCHANGED <<cached, woken, clearing>>
  /\ UNCHANGED <<socket, gen, waker, seen, driver, gone, bounds>>

RegisterAgain(d) ==
  /\ pc[d] = "again" /\ waker' = [waker EXCEPT ![d] = gen] /\ Goto(d, "retry")
  /\ UNCHANGED <<socket, word, gen, cached, seen, woken, clearing, driver, gone, bounds>>

Retry(d) ==
  LET f(r) == r \ Own(d)
      r == word.ready \cap mask(d) IN
  /\ pc[d] = "retry" /\ set_readiness(gen, f(word.ready))
  /\ IF r # {} THEN Found(d, r)
     ELSE /\ Goto(d, "pending") /\ clearing' = [clearing EXCEPT ![d] = FALSE]
          /\ UNCHANGED <<cached, woken>>
  /\ UNCHANGED <<socket, gen, waker, seen, driver, gone, bounds>>

\* The system call: it takes all or part of what there is; on a hung up socket it
\* ends; otherwise it would block, and the cache is cleared and polled again.
Io(d) ==
  /\ pc[d] = "io"
  /\ IF kernel \cap mask(d) # {}
     THEN /\ kernel' \in {kernel, kernel \ Own(d)} /\ Goto(d, "idle") /\ UNCHANGED <<cached, clearing>>
     ELSE /\ cached' = [cached EXCEPT ![d] = @ \ Own(d)] /\ clearing' = [clearing EXCEPT ![d] = TRUE]
          /\ Goto(d, "load") /\ UNCHANGED kernel
  /\ UNCHANGED <<edge, armed, slot, seen, woken, driver, gone, bounds>>
-----------------------------------------------------------------------------
(* Registration::drop and the next user of the slot                        *)

\* deregister takes the socket out of the selector.
Deregister ==
  /\ armed /\ Quiet /\ sockets < MaxSockets /\ ~gone /\ armed' = FALSE /\ edge' = FALSE
  /\ pc' = [d \in Dirs |-> "reset"] /\ UNCHANGED <<kernel, slot, cached, seen, woken, clearing, driver, gone, bounds>>

\* ScheduledIo::reset, then the two wakers are dropped; the slot is free.
Reset ==
  /\ ~armed /\ pc["rd"] = "reset" /\ pc["wr"] = "reset" /\ word.gen = gen
  /\ word' = [gen |-> (gen + 1) % GEN, ready |-> {}] /\ pc' = [pc EXCEPT !["rd"] = "drop"]
  /\ UNCHANGED <<socket, gen, waker, cached, seen, woken, clearing, driver, gone, bounds>>

DropWakers ==
  /\ ~armed /\ pc["rd"] = "drop" /\ pc' = [d \in Dirs |-> "free"]
  /\ waker' = [d \in Dirs |-> NoWaker]
  /\ UNCHANGED <<socket, word, gen, cached, seen, woken, clearing, driver, gone, bounds>>

\* Registration::new: the slot's generation becomes part of the address.
New ==
  /\ ~armed /\ pc["rd"] = "free" /\ armed' = TRUE /\ kernel' = {} /\ edge' = FALSE
  /\ gen' = word.gen /\ sockets' = sockets + 1
  /\ pc' = [d \in Dirs |-> "idle"] /\ cached' = [d \in Dirs |-> {}] /\ seen' = [d \in Dirs |-> {}]
  /\ woken' = [d \in Dirs |-> FALSE] /\ UNCHANGED <<word, waker, clearing, driver, gone, edges>>
-----------------------------------------------------------------------------
(* The driver is dropped; the slot wakes its tasks when the last one lets go *)

DropDriver ==
  /\ drv = "idle" /\ ~gone /\ gone' = TRUE /\ drv' = "gone"
  /\ UNCHANGED <<socket, slot, task, ev, took, bounds>>

DropInner ==
  /\ drv = "gone" /\ Quiet /\ drv' = "dropped" /\ waker' = [d \in Dirs |-> NoWaker]
  /\ woken' = Woken({<<d, waker[d]>> : d \in Dirs})
  /\ UNCHANGED <<socket, word, gen, pc, cached, seen, clearing, ev, took, gone, bounds>>

TaskStep(d) == \/ Poll(d) \/ TakeReady(d) \/ Load(d) \/ Register(d) \/ WakeSelf(d) \/ Consume(d)
               \/ RegisterAgain(d) \/ Retry(d) \/ Io(d)
DriverStep == Turn \/ SetEvent \/ TakeWriter \/ TakeReader \/ WakeTasks \/ DropDriver \/ DropInner
Next == Change \/ DriverStep \/ (\E d \in Dirs : TaskStep(d)) \/ Deregister \/ Reset \/ DropWakers \/ New

Spec == Init /\ [][Next]_vars
-----------------------------------------------------------------------------
TypeOK == /\ kernel \subseteq Bits /\ word.ready \subseteq Bits /\ word.gen \in 0..GEN - 1
          /\ \A d \in Dirs : cached[d] \subseteq mask(d)

\* The driver holds an event of this socket that it has yet to dispatch to d.
Coming(d) ==
  \/ edge
  \/ drv = "set" /\ ev.gen = gen
  \/ drv = "wr" /\ ev.gen = gen
  \/ drv = "rd" /\ ev.gen = gen /\ d = "rd"
  \/ <<d, gen>> \in took

\* A task whose poll returned Pending is woken for everything the socket can do: the
\* readiness is still on its way or the task was woken already (poll_ready, dispatch,
\* clear_*_ready); after the driver is gone, every task was woken (ScheduledIo::drop).
NoMissedReadiness ==
  \A d \in Dirs : armed /\ pc[d] = "pending" /\ ~woken[d] =>
    /\ ~gone /\ kernel \cap mask(d) # {} => Coming(d)
    /\ drv # "dropped"

\* What the word says of a socket was reported for that socket: an event of an earlier
\* user of the slot is refused by its generation (set_readiness, reset).
NoStaleReadiness == armed => ("hup" \in word.ready => "hup" \in kernel) /\ word.gen = gen

IoSound == NoMissedReadiness /\ NoStaleReadiness

-----------------------------------------------------------------------------
(***************************************************************************)
(* The concurrent slab of the I/O driver (src/krse/io/slab.rs): pages that *)
(* double in size, a free list per page for the holder of the mutex, and a *)
(* transfer stack per page for threads that find the mutex taken.  One     *)
(* step per atomic operation; what happens under the mutex on cells that   *)
(* nobody else touches is one step.                                        *)
(***************************************************************************)

CONSTANTS
  Threads,
  INITIAL_PAGE_SIZE, MAX_PAGES,
  GENERATIONS,   \* Generation::MAX + 1
  NULL,          \* Address::NULL, larger than every slot
  MaxAlloc       \* bound: allocations of a thread

VARIABLES
  mutex,                  \* Slab::local: its holder, or {}
  local, remote,          \* the heads of the two free lists of a page
  next, generation,       \* a slot
  paged,                  \* pages whose storage was allocated
  slab_pc, page, addr, slab_seen,   \* a thread: where, the page it tries, its addresses, what it loaded
  out,                    \* the address a thread is removing
  allocs, issued, reused  \* allocations; ghosts: the generations a slot was handed out in, one of them twice

cells == <<local, remote, next, generation, paged>>
thread == <<slab_pc, page, addr, slab_seen, out>>
slabVars == <<mutex, cells, thread, allocs, issued, reused>>

Pages == 0..MAX_PAGES - 1
page_size(p) == INITIAL_PAGE_SIZE * 2^p
prev_sz(p) == INITIAL_PAGE_SIZE * (2^p - 1)
Slots == 0..prev_sz(MAX_PAGES) - 1

\* Address::page: the position of the highest bit of the shifted slot.
Width[n \in Nat] == IF n = 0 THEN 0 ELSE 1 + Width[n \div 2]
page_of(entry) == Width[(entry + INITIAL_PAGE_SIZE) \div (2 * INITIAL_PAGE_SIZE)]
offset(entry) == entry - prev_sz(page_of(entry))

NoAddr == [slot |-> NULL, gen |-> 0]

SlabInit ==
  /\ mutex = {} /\ local = [p \in Pages |-> 0] /\ remote = [p \in Pages |-> NULL]
  /\ next = [s \in Slots |-> NULL] /\ generation = [s \in Slots |-> 0] /\ paged = {}
  /\ slab_pc = [t \in Threads |-> "idle"] /\ page = [t \in Threads |-> 0]
  /\ addr = [t \in Threads |-> {}] /\ slab_seen = [t \in Threads |-> NULL]
  /\ out = [t \in Threads |-> NoAddr]
  /\ allocs = [t \in Threads |-> 0] /\ issued = [s \in Slots |-> 0] /\ reused = FALSE

SlabGoto(t, l) == slab_pc' = [slab_pc EXCEPT ![t] = l]
-----------------------------------------------------------------------------
\* alloc waits for the mutex and tries the pages in order.
Alloc(t) ==
  /\ slab_pc[t] = "idle" /\ allocs[t] < MaxAlloc /\ mutex = {}
  /\ mutex' = {t} /\ SlabGoto(t, "alloc") /\ page' = [page EXCEPT ![t] = 0]
  /\ allocs' = [allocs EXCEPT ![t] = @ + 1]
  /\ UNCHANGED <<cells, addr, slab_seen, out, issued, reused>>

\* The storage of a page is created with a free list of all its slots.
alloc_page(p) ==
  IF p \in paged THEN next
  ELSE [s \in Slots |-> IF page_of(s) # p THEN next[s]
                        ELSE IF offset(s) + 1 = page_size(p) THEN NULL ELSE offset(s) + 1]

Hand(t, p, head) ==
  LET nexts == alloc_page(p)
      entry == head + prev_sz(p)
      a == [slot |-> entry, gen |-> generation[entry]] IN
  /\ next' = nexts /\ paged' = paged \cup {p}
  /\ local' = [local EXCEPT ![p] = nexts[entry]]
  /\ addr' = [addr EXCEPT ![t] = @ \cup {a}]
  /\ issued' = [issued EXCEPT ![entry] = a.gen + 1] /\ reused' = (reused \/ a.gen < issued[entry])
  /\ mutex' = {} /\ SlabGoto(t, "idle")

\* Shared::alloc: the local list, or else all that was removed remotely; a page with
\* neither is skipped, and after the last page alloc returns None.
TryPage(t) ==
  LET p == page[t]
      head == IF local[p] < page_size(p) THEN local[p] ELSE remote[p] IN
  /\ slab_pc[t] = "alloc"
  /\ remote' = IF local[p] < page_size(p) THEN remote ELSE [remote EXCEPT ![p] = NULL]
  /\ IF head # NULL THEN Hand(t, p, head) /\ UNCHANGED page
     ELSE /\ page' = [page EXCEPT ![t] = (p + 1) % MAX_PAGES]
          /\ SlabGoto(t, IF p + 1 = MAX_PAGES THEN "idle" ELSE "alloc")
          /\ mutex' = IF p + 1 = MAX_PAGES THEN {} ELSE mutex
          /\ UNCHANGED <<local, next, paged, addr, issued, reused>>
  /\ UNCHANGED <<generation, slab_seen, out, allocs>>
-----------------------------------------------------------------------------
\* remove: whoever gets the mutex uses the local list.
RemoveSlot(t) ==
  /\ slab_pc[t] = "idle" /\ \E a \in addr[t] :
       /\ out' = [out EXCEPT ![t] = a] /\ addr' = [addr EXCEPT ![t] = @ \ {a}]
  /\ IF mutex = {} THEN mutex' = {t} /\ SlabGoto(t, "local") ELSE SlabGoto(t, "remote") /\ UNCHANGED mutex
  /\ UNCHANGED <<cells, page, slab_seen, allocs, issued, reused>>

\* The slot is freed and its generation kept.
M_ResetSameGeneration(t, l) ==
  LET ok == generation[out[t].slot] = out[t].gen IN
  /\ UNCHANGED generation
  /\ SlabGoto(t, IF ok THEN l ELSE "idle")

\* Entry::reset: only an address of the current generation frees the slot.
SlabReset(t, l) ==
  LET s == out[t].slot
      ok == generation[s] = out[t].gen IN
  /\ generation' = IF ok THEN [generation EXCEPT ![s] = (@ + 1) % GENERATIONS] ELSE generation
  /\ SlabGoto(t, IF ok THEN l ELSE "idle")

RemoveLocal(t) ==
  /\ slab_pc[t] = "local" /\ SlabReset(t, "free")
  /\ mutex' = IF generation[out[t].slot] = out[t].gen THEN mutex ELSE {}
  /\ UNCHANGED <<local, remote, next, paged, page, addr, slab_seen, out, allocs, issued, reused>>

FreeLocal(t) ==
  LET s == out[t].slot
      p == page_of(s) IN
  /\ slab_pc[t] = "free" /\ next' = [next EXCEPT ![s] = local[p]]
  /\ local' = [local EXCEPT ![p] = offset(s)]
  /\ out' = [out EXCEPT ![t] = NoAddr] /\ mutex' = {} /\ SlabGoto(t, "idle")
  /\ UNCHANGED <<remote, generation, paged, page, addr, slab_seen, allocs, issued, reused>>

RemoveRemote(t) ==
  /\ slab_pc[t] = "remote" /\ SlabReset(t, "load")
  /\ UNCHANGED <<mutex, local, remote, next, paged, page, addr, slab_seen, out, allocs, issued, reused>>

\* TransferStack::push: the slot is linked to the head that was loaded; the exchange
\* succeeds if that is still the head.
LoadHead(t) ==
  LET s == out[t].slot IN
  /\ slab_pc[t] = "load" /\ slab_seen' = [slab_seen EXCEPT ![t] = remote[page_of(s)]]
  /\ next' = [next EXCEPT ![s] = remote[page_of(s)]] /\ SlabGoto(t, "push")
  /\ UNCHANGED <<mutex, local, remote, generation, paged, page, addr, out, allocs, issued, reused>>

Push(t) ==
  LET s == out[t].slot
      p == page_of(s)
      ok == remote[p] = slab_seen[t] IN
  /\ slab_pc[t] = "push" /\ remote' = IF ok THEN [remote EXCEPT ![p] = offset(s)] ELSE remote
  /\ SlabGoto(t, IF ok THEN "idle" ELSE "load")
  /\ out' = IF ok THEN [out EXCEPT ![t] = NoAddr] ELSE out
  /\ slab_seen' = [slab_seen EXCEPT ![t] = NULL]
  /\ UNCHANGED <<mutex, local, next, generation, paged, page, addr, allocs, issued, reused>>

SlabNext == \E t \in Threads : \/ Alloc(t) \/ TryPage(t) \/ RemoveSlot(t) \/ RemoveLocal(t) \/ FreeLocal(t)
                               \/ RemoveRemote(t) \/ LoadHead(t) \/ Push(t)

SlabSpec == SlabInit /\ [][SlabNext]_slabVars
-----------------------------------------------------------------------------
\* The offsets on the list that starts at head, in page p.
Chain(p, head) ==
  LET c[k \in 0..page_size(p)] ==
        IF k = 0 THEN <<head>>
        ELSE LET l == c[k - 1] IN
             IF l[Len(l)] >= page_size(p) THEN l ELSE Append(l, next[l[Len(l)] + prev_sz(p)])
  IN SelectSeq(c[page_size(p)], LAMBDA o : o < page_size(p))
Occurs(s, l) == Cardinality({i \in DOMAIN l : l[i] = s})

\* Every slot of a page with storage is in exactly one place: with one owner, on its way
\* back, or once on one free list; an owner's address has the slot's generation, and no
\* address is handed out twice before the generations wrap (the tests tokens_unique_*).
SlabSound ==
  /\ \A p \in paged : \A s \in {x \in Slots : page_of(x) = p} :
       Cardinality({t \in Threads : \E a \in addr[t] : a.slot = s})
         + Cardinality({t \in Threads : out[t].slot = s})
         + Occurs(offset(s), Chain(p, local[p])) + Occurs(offset(s), Chain(p, remote[p])) = 1
  /\ \A t \in Threads : \A a \in addr[t] : generation[a.slot] = a.gen
  /\ ~reused

-----------------------------------------------------------------------------
(* util/linked_list.rs: the intrusive doubly linked list.  The nodes hold the  *)
(* pointers; the list holds its ends.  Next to them the model keeps the        *)
(* sequence the list stands for.                                               *)

CONSTANTS Nodes, Nil

VARIABLES
    head, tail, prev, list_next,
    seq,       \* the nodes of the list, first to last
    returned   \* what the last operation returned

listVars == <<head, tail, prev, list_next, seq, returned>>

ListInit ==
    /\ head = Nil /\ tail = Nil
    /\ prev = [n \in Nodes |-> Nil] /\ list_next = [n \in Nodes |-> Nil]
    /\ seq = <<>> /\ returned = Nil

push_front(n) ==
    /\ n \notin Range(seq)
    /\ list_next' = [list_next EXCEPT ![n] = head]
    /\ prev' = [m \in Nodes |-> IF m = n THEN Nil ELSE IF m = head THEN n ELSE prev[m]]
    /\ head' = n /\ tail' = IF tail = Nil THEN n ELSE tail
    /\ seq' = <<n>> \o seq /\ returned' = Nil

pop_back ==
    /\ IF tail = Nil
       THEN returned' = Nil /\ UNCHANGED <<head, tail, prev, list_next>>
       ELSE /\ tail' = prev[tail]
            /\ head' = IF prev[tail] = Nil THEN Nil ELSE head
            /\ list_next' = [m \in Nodes |-> IF m \in {prev[tail], tail} THEN Nil ELSE list_next[m]]
            /\ prev' = [prev EXCEPT ![tail] = Nil]
            /\ returned' = tail
    /\ seq' = IF seq = <<>> THEN seq ELSE Front(seq)

\* The node is in this list, or in none; a node without neighbours that is not the
\* end it would have to be is in none.
remove(n) ==
    /\ IF (prev[n] = Nil /\ head # n) \/ (list_next[n] = Nil /\ tail # n)
       THEN returned' = Nil /\ UNCHANGED <<head, tail, prev, list_next>>
       ELSE /\ head' = IF prev[n] = Nil THEN list_next[n] ELSE head
            /\ tail' = IF list_next[n] = Nil THEN prev[n] ELSE tail
            /\ list_next' = [m \in Nodes |-> IF m = n THEN Nil ELSE IF m = prev[n] THEN list_next[n] ELSE list_next[m]]
            /\ prev' = [m \in Nodes |-> IF m = n THEN Nil ELSE IF m = list_next[n] THEN prev[n] ELSE prev[m]]
            /\ returned' = n
    /\ seq' = SelectSeq(seq, LAMBDA m : m # n)

ListNext == pop_back \/ \E n \in Nodes : push_front(n) \/ remove(n)

ListSpec == ListInit /\ [][ListNext]_listVars

-----------------------------------------------------------------------------
\* The pointers spell the sequence, forwards and backwards, and a node outside the
\* list has none; is_empty's assertion is the case of the empty sequence.
LinkedListSound ==
    /\ head = IF seq = <<>> THEN Nil ELSE Head(seq)
    /\ tail = IF seq = <<>> THEN Nil ELSE Last(seq)
    /\ \A i \in DOMAIN seq : /\ list_next[seq[i]] = IF i = Len(seq) THEN Nil ELSE seq[i + 1]
                             /\ prev[seq[i]] = IF i = 1 THEN Nil ELSE seq[i - 1]
    /\ \A n \in Nodes \ Range(seq) : list_next[n] = Nil /\ prev[n] = Nil
    /\ returned \notin Range(seq)
=============================================================================
