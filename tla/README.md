# A TLA+ verification project for miez

miez is a publish/subscribe message broker in C: a thread pool, a broker on top
of it, generic containers below, and a TLS server as a demo. Most of what can go
wrong in it is concurrent: condition variables signalled outside the critical
section that changed the data, tests made under a mutex and used after releasing
it, objects freed while another thread still points to them. This directory holds
TLA+ modules of all its parts, TLC configurations that check them on small instances,
and TLAPS proofs about the pool, the broker, the list, the queue, the hash table
and the server for every number of threads, clients, messages and objects.

Paths such as `src/src/thread_pool.c` are relative to the directory that holds the
repository as `src/`.

## Inventory of the system

| Component | State | Operations | Interacts with |
|---|---|---|---|
| `thread_pool.c` | task queue, `_mutex`, two condition variables, atomics `_on`, `_off`, `_in_flight`, dispatcher threads | new, submit, wait, shutdown, free; `_dispatcher_function` | `generic_queue_syn`; runs the broker's publisher tasks |
| `message_broker.c` | table of channels, one list of subscriber proxies per channel, one inbox per proxy, three kinds of mutex, `_inbox_cond`, message and subscriber ids | publish, subscribe, unsubscribe, receive, try_receive, wait, free; `_publisher_task` | pool, hash table, list, queue |
| `generic_linked_list.c` | guard nodes, links, `_size`, free and copy functions, iterators | insertion and removal at both ends, iterators, distance, find, for_each | used by the queue, the hash table and the broker; has no lock |
| `generic_queue.c`, `generic_queue_syn.c` | a list; a list and a mutex | enqueue, dequeue, is_empty, size, peek, peek_rear, clear, contains, for_each, free | pool (tasks), broker (inboxes) |
| `generic_hash_table.c` | buckets (lists) with a mutex each, `_size` | insert, get, contains, delete, get_size, is_empty, free | broker (`_channels`) |
| `network_server.c` | accept thread, a handler and a receiver thread per connection, the list of detached subscriptions, `_running` | AUTH, SUBSCRIBE, PUBLISH, DETACH, ATTACH, QUIT; start, stop, free | broker |
| `main.c`, `network_server_main.c` | - | demo programs | broker, server |

What is hard, and what makes each part correct:

* **thread pool** - submit enqueues without `_mutex` and signals later; the
  dispatcher dequeues after releasing `_mutex`; `_in_flight` is counted after the
  dequeue; `_on` and `_off` are stored without `_mutex`. Correct means: no lost
  wakeup, every accepted task run once, wait and stop terminate, wait waits for
  the right tasks.
* **broker** - workers, subscribers, cancellers and receivers interleave on three
  nested kinds of mutex; any allocation may fail in the middle. Correct means: one
  channel per name, one order of messages for all subscribers with no gap, no
  sleeping next to a message, one owner of a proxy, no use of a freed one, no
  deadlock, no mutex kept by an error path.
* **list** - pointer updates in two directions and iterators that survive
  removals. Correct means: it is a sequence, and iterators are positions in it.
* **queue** - clear, contains and for_each are many list calls under one mutex.
  Correct means: every call acts at one moment, and data has one owner.
* **hash table** - one lock per bucket, a counter outside the locks, iterators
  over lists that other keys' threads change. Correct means: it answers as an
  atomic map, no pair is lost or freed twice, no error path keeps a lock.
* **server** - a subscription moves between connections, its receiver thread is
  stopped and started, connections break and the server stops at any moment.
  Correct means: one owner and one reader of a subscription, no message lost
  between DETACH and ATTACH, deliveries reach a peer that reads, threads end.

`PROJECT.json` lists these hazards at the lines where they bite, each with the
properties that cover it or the reason why none does yet.

## Modules

| Module | Models | Notes |
|---|---|---|
| `GenericQueue` | `generic_queue_syn_*`, `generic_queue_*` | operators on sequences; every call is atomic because it holds the queue's own mutex |
| `TaskPool` | what a pool promises | abstract specification; the broker runs its tasks on it |
| `ThreadPool` | `thread_pool.c` | one step per atomic operation, queue call or mutex acquisition |
| `ThreadPoolProofs` | - | theorems about `ThreadPool` |
| `ChannelLog` | what a channel promises | abstract specification: a log, and subscribers that see contiguous parts of it |
| `MessageBroker` | `message_broker.c` and its use of the hash table | uses `TaskPool` and `GenericQueue` |
| `IteratedList` | what the list promises | abstract specification: a sequence with positions |
| `GenericLinkedList` | `generic_linked_list.c` | guards, links, ownership, iterators |
| `AtomicQueue` | what a locked queue promises | abstract specification: the operators of `GenericQueue`, each call at one moment |
| `GenericQueueSyn` | `generic_queue_syn.c` over `generic_queue.c` | mutex, list calls one at a time, walks node by node |
| `ConcurrentMap` | what the table promises | abstract specification: a stack of values per key, each call at one moment |
| `GenericHashTable` | `generic_hash_table.c` | buckets, a mutex each, the counter, error paths |
| `NetworkServer` | `network_server.c`, start and stop of `network_server_main.c` | uses `ChannelLog` as its broker |
| `MessageBrokerProofs`, `MessageBrokerDeliveryProofs`, `GenericLinkedListProofs`, `GenericQueueSynProofs`, `GenericHashTableProofs`, `NetworkServerProofs` | - | theorems about the module they are named after |
| `SequenceLemmas` | - | what the operators on sequences do, and an induction principle for sets of numbers, for the proofs |
| `MCThreadPool`, `MCMessageBroker`, `MCGenericLinkedList`, `MCGenericQueueSyn`, `MCGenericHashTable`, `MCNetworkServer` | - | symmetry sets and constant functions for TLC |

`ThreadPool` implements `TaskPool` (checked and proved), and `MessageBroker`
uses `TaskPool` as its pool: that is how the two compose. `GenericLinkedList`
implements `IteratedList`, whose insert-last and remove-first are the enqueue and
dequeue of `GenericQueue`. `GenericQueueSyn` implements `AtomicQueue`, which is
the form in which the pool and the broker use their queues; `GenericHashTable`
implements `ConcurrentMap`, whose `stack[k]` is the broker's `table[n]`; and
`NetworkServer` runs on `ChannelLog`, which `MessageBroker` implements. The
refinements of `AtomicQueue`, `ChannelLog` and `IteratedList` are proved too; that
of `ConcurrentMap` is checked by TLC.

Names follow the code. An operator whose comment begins with "Wrong variant" is a
plausible bug in the definition that follows it: it is used only to see that the
property it belongs to would notice.

### ThreadPool

`dpc[d]` is the place of dispatcher `d` in `_dispatcher_function`, `cpc[c]` that
of client `c` inside an API call. `mutex` is the holder of `_mutex`; `newTask` and
`taskDone` are the threads blocked on the condition variables. Blocking releases
the mutex and joins the set in one step; a woken thread has left the set and must
retake the mutex. A critical section that contains only a signal is one step that
needs a free mutex. Spurious wakeups and failing `pthread_create` and `malloc` are
modelled. `stage`, `runs` and `owed` are history variables.

One client, `Owner`, creates, shuts down and frees the pool; free is called when no
other client is inside. A second `thread_pool_shutdown`, which would join the same
threads again, is outside the contract.

### MessageBroker

A subscription `s` stands for its proxy and for the thread that makes and cancels
it. `table[n]` is the bucket chain for name `n`, newest object first: a lookup
that cannot allocate its iterator looks like a miss and leads to a second object,
and the model keeps that. `faults` counts failing allocations up to `MaxFaults`.
Freeing a proxy puts it into `freed`; a receiver that then touches it goes to
"undefined". `ConcurrentUnsubscribe` says whether a subscription may be cancelled
while a receiver is inside it.

`_active` is a plain `int` that threads read and write without a common lock. For
the builds in question a reader sees the old or the new value until it next
synchronises with the writer; every such outcome is one of the interleavings of
separate read and write steps. The first three tests of a receive call are one
step.

`log`, `joinAt`, `delivered`, `received`, `gotNull` and `due` are history variables.
`NoReceiverStranded` allows a receiver to sleep next to a message while a
cancellation is between clearing `_active` and its broadcast: with two receivers of
one subscription and a concurrent unsubscribe that state is reachable, and the
broadcast ends it.

The last allocation of `generic_hash_table_insert` is the one whose failure does
not end well: the function returns with the bucket locked and has freed the
channel, which its caller frees again (`LinkFails`, `WorkerLinkFails`,
`SubscribeLinkFails`). `stuck` holds the names of such buckets. Whoever looks one
of them up takes `_channels_mutex` and waits for ever, so that nobody gets to the
table any more (`LookupBlocks`); a process that dies of the second free is a
behaviour that ends. `message_broker_free` does not get past a locked bucket.
`MessagesAreWorkedOff` and `UnsubscribeReturns` claim nothing once `stuck` is not
empty, and every other failing allocation is inside their claim.

`SameOrder` speaks of what a subscription has got: what its receive calls handed
out, followed by its inbox.

### GenericLinkedList

`next`, `prev`, `data`, `size` and `iter` are the fields of the structures.
`order` is a history variable with the nodes in list order, `where` says where the
object behind a data pointer is, `stale` holds the iterators whose node somebody
else removed. Using those is undefined behaviour and is not modelled. Each call is
one step, since users hold a lock of their own. Calls that fail change nothing.
The loops of advance, distance, find and for_each follow the links: `Reached` is
the node after a number of them, `Walk` the nodes visited on the way to an end,
and `Meets` says that the end is met before the tail guard.

### GenericQueueSyn

A call takes `mutex`, makes the list calls of `generic_queue.c` one step at a time
and releases the mutex. `at[t]` is the iterator of thread `t`, `seen[t]` what its
loop has dealt with. Setting the copy function is not an action: with or without
it an element is the data that a node holds. The argument of a dequeue says
whether there is a place for the data: without one the element is freed, or the
call refused when there is no free function. The refinement of `AtomicQueue`
remembers in `asked` which call a thread is in, so that an answer must fit the
call and the queue at one moment of the call: this is linearisability, with the
moment of a clear at its last list call.

### GenericHashTable

A pair stands for its key and value copies. `pc[t]` is the place of thread `t`,
`at[t]` the pair it inserts or its iterator is at. `InsertLinkFails` is the error
path that returns with the bucket's mutex locked; `leaked` remembers such buckets,
and `CallsReturn` excepts them. Inserting a key twice keeps both pairs, the newest
in front, so that the abstract map has a stack for each key; an insertion takes
effect when the counter is incremented and a deletion when it is decremented,
which explains every answer of `generic_hash_table_get_size`.

### NetworkServer

A client is a connection; `pc[c]` is the place of its handler thread and
`receiver[c]` that of its receiver thread. What a peer sends is any command at any
time, also commands sent before it left that are read afterwards. `peer[c]` is
the other end. It reads; or it has stopped reading for good and a message does not
fit into the connection any more ("stalled"): the sockets are blocking, so that
`SSL_write` returns only when the connection is dropped; or it has closed or reset
the connection ("gone"): reads end and writes fail, or raise SIGPIPE, which ends
the process (`main = "killed"`), because `network_server_main.c` handles SIGINT
and SIGTERM only. A peer that reads again later is one that reads. Answers are
not modelled; a handler that is blocked in one behaves as one whose peer sends no
further command, and the write of `SSL_shutdown` ends when the peer lets it. A
refused command changes nothing.

Joining a receiver that was never created or has been joined is undefined in C:
the model lets it return, hang or crash. `failed` holds the connections to which
that can happen: those whose last `pthread_create` failed, and those whose DETACH
joined the receiver and then found no memory for the list's node. `JoinsOnce`
claims that it happens to no other. `_handle_detach` reads the id of
the subscription after listing it, when another client may have attached and freed
it; that read is outside the ownership that `SubscriptionOwned` states.

`network_server_free` is called only when no handler is left, which its caller
must know, as handlers are detached threads. main never calls it after a stop: it
stays in its loop.

## Runs

| Run | Configuration | Result | Shows |
|---|---|---|---|
| `pool_safety` | `ThreadPoolSafety.cfg` | pass, 554k states | types, no lost wakeup, conservation of tasks, exact `_in_flight`, waiters have a cause, what wait guarantees, refinement of `TaskPool` |
| `pool_liveness` | `ThreadPoolLiveness.cfg` | pass | accepted tasks run, stop terminates, wait returns |
| `pool_wait` | `ThreadPoolWait.cfg` | violation | wait may return before a task accepted earlier has run |
| `broker_safety` | `BrokerSafety.cfg` | pass, 1.9M states | workers reach only live proxies, nobody registered is missed, one order for all subscriptions, no stranded receiver, refinement of `ChannelLog` |
| `broker_faults` | `BrokerFaults.cfg` | pass, 166k states | with failing allocations and spurious wakeups: one channel per name, no freed proxy touched, receive yields a message, proxies have one owner |
| `broker_liveness` | `BrokerLiveness.cfg` | pass, 226k states | messages are worked off, unsubscribe returns, blocked receivers wake |
| `broker_use_after_free` | `BrokerUseAfterFree.cfg` | violation | cancelling under a receiver frees the proxy it uses |
| `broker_two_receivers` | `BrokerTwoReceivers.cfg` | violation | two receivers of one subscription: success without a message |
| `linked_list` | `LinkedList.cfg` | pass, 93k states | links, ownership, live iterators, refinement of `IteratedList` |
| `queue_syn` | `QueueSyn.cfg` | pass, 295k states | elements have one owner, refinement of `AtomicQueue`, calls return |
| `hash_table` | `HashTable.cfg` | pass, 68k states | pairs are conserved, refinement of `ConcurrentMap`, calls return |
| `network_server` | `NetworkServer.cfg` | pass, 249k states | one reader, one owner, one join, nothing lost by DETACH, deliveries reach a peer that reads, threads end |

The three violations:

* **pool_wait.** A dispatcher dequeues the only task and is suspended before it
  increments `_in_flight`. `thread_pool_wait` sees an empty queue and zero, and
  returns. `tests/thread_pool_test.c:264` asserts that "all tasks should complete
  after wait". `WaitMissesOnlyUncounted` is what does hold, and is proved.
* **broker_use_after_free.** `subscription_unsubscribe` frees the proxy while a
  receiver that has read `self->_proxy` is about to use it. `main.c` cancels the
  subscriptions before it joins the threads that receive from them.
  `broker_faults` shows the absence of the problem when cancelling waits for the
  receivers, as `network_server.c` does.
* **broker_two_receivers.** The inbox is tested under `_inbox_mutex` and dequeued
  after its release by `subscription_receive`, and tested and dequeued without it
  by `subscription_try_receive`; dequeuing an empty queue succeeds with `NULL`, so
  that either call may return success without a message.

### Bounds

* *Pool*: two dispatchers are what a race for a task and a missed signal need; two
  clients let submit, wait and shutdown overlap; two tasks make a signal "for the
  first task only" insufficient. One wait and one spurious wakeup (`MaxWaits`,
  `MaxSpurious`). The liveness run has one task. The proofs have no bounds on
  threads, clients and tasks.
* *Broker*: two workers and two messages (`MaxMessages`) are needed for reordering,
  two subscriptions for orders that differ and for one leaving while the other is
  served; one name, because channels of different names share only
  `_channels_mutex`. Two faults (`MaxFaults`) reach the shadowed channel object
  and a failure after it. `broker_safety` has no faults, since its promises are
  about runs in which memory suffices, except `SameOrder`, which is proved with
  failing allocations too; the faults run has one worker and message.
* *List*: three nodes make first, inner and last nodes differ; two objects and
  `NULL`; two iterators, which distance, find and for_each need, and of which one
  may remove under the other.

* *Queue*: two threads, two elements, four calls (`MaxCalls`) and one failing
  allocation: two enqueues, then a walk or a clear against a dequeue.
* *Hash table*: two buckets, three keys of which two share a bucket, two pairs,
  three calls and one failing allocation: an insert, then a walk of the bucket
  against a change of another key in it.
* *Server*: two connections and one subscription that they hand to each other, one
  message, one failing allocation or thread creation. With two messages the
  invariants were checked apart from the liveness properties (1.8M states), to see
  the order of messages across DETACH and ATTACH.

`CHECK_DEADLOCK FALSE` is set because the clients may stop calling and the pool,
the broker and the list may be freed; that threads inside calls do not block
forever is what the liveness properties state.

Symmetry is used in safety runs only, over threads, tasks, nodes, objects and
iterators that appear nowhere by name.

### Fairness

Weak fairness for each dispatcher or worker, for each client or receiver inside a
call, and for the thread of each subscription inside subscribe or unsubscribe: the
operating system eventually runs a thread that can run. Nobody is made to call,
no wakeup has to be spurious and no allocation has to fail. Weak fairness on
acquiring a mutex suffices in these instances: no thread takes and releases a mutex
forever while another waits for it.

In the server, peers send, stop reading, leave and end a handshake when they
please. Handlers, receivers, the broker and the accept thread are weakly fair, and
a write ends, unless it has blocked: `ReceiverWrite` is not enabled while the peer
is "stalled", and nothing makes such a peer read. `SSL_shutdown` has to end only
when the peer is gone. Strong fairness for
the failing read of a broken connection says that what a peer sent before it left
is finite: a handler that returns to its read again and again comes to its end.

## Proofs

`ThreadPoolProofs` proves, for every finite non-empty set of dispatchers and any
sets of clients and tasks (`PoolAssumption`, which TLC evaluates in the runs):

| Theorem | Statement |
|---|---|
| `TypeCorrect` | `Spec => []TypeOK` |
| `InFlightIsExact` | `Spec => []InFlightCounts` |
| `NoWakeupIsLost` | `Spec => []NoLostWakeup` |
| `TasksAreConserved` | `Spec => []Conservation` |
| `WaitersHaveCause` | `Spec => []WaiterHasCause` |
| `WaitGuarantee` | `Spec => WaitMissesOnlyUncounted` |
| `Refinement` | `Spec => ImplementsTaskPool` |

The argument is in layers, each an inductive invariant that may use the ones
before it:

1. `TypeInv`: types, together with the meaning of `_in_flight` (`InFlightCounts`,
   without which the decrement could leave the naturals) and the fact that a
   dispatcher or submitter holds a task where the code uses one.
2. `SyncInv`: a dispatcher holds the mutex exactly while its program counter is in
   the critical section, only blocked dispatchers are in `newTask`, and
   `NoLostWakeup` with its strengthening (below).
3. `TaskInv`: `Conservation`, and the task of a submit in progress is nowhere else.
4. `OwnerInv`: where the owner is in the stop sequence agrees with `off` and with
   which dispatchers exist.
5. `WaitInv`: the same mutex discipline for clients, `WaiterHasCause` with its
   strengthening for a client about to sleep, and: the tasks a waiting client is
   owed are queued, taken or done, and no longer queued once it has seen the queue
   empty.

`NoLostWakeup` is not inductive. The strengthening it needs: if the queue is not
empty although a dispatcher that holds `_mutex` found it empty and is about to
sleep, then some submitter has still to signal, and it cannot do so before the
dispatcher has released the mutex by going to sleep. The refinement takes one step of `TaskPool` for the
enqueue, the dequeue, the execution and the final drain, and a stuttering step for
every other action.

### Broker

`MessageBrokerProofs` and `MessageBrokerDeliveryProofs` prove, for any sets of
workers and subscriptions, finite sets of receivers and names, and any number of
messages and failing allocations (`BrokerAssumption`):

| Theorem | Statement |
|---|---|
| `TypeCorrect` | `Spec => []TypeOK` |
| `WorkersTouchLiveProxies` | `Spec => []WorkerTouchesLive` |
| `ReceiversTouchLiveProxies` | `ConcurrentUnsubscribe = FALSE` implies `Spec => []NoUseAfterFree` |
| `NamesHaveOneChannel` | `Spec => []OneChannelPerName` |
| `ProxiesHaveOneOwner` | `Spec => []ProxiesOwned` |
| `SubscribersAgree` | `Spec => []SameOrder` |
| `ReceiversGetMessages` | one receiver per subscription implies `Spec => []ReceiveYieldsMessage` |
| `EverybodyGetsTheMessage` | `Spec => []DeliveredToAll` |
| `NobodySleepsNextToAMessage` | `Spec => []NoReceiverStranded` |
| `ChannelsAreLogs` | `MaxFaults = 0` implies `Spec => ImplementsChannelLog` |

The three hypotheses are the ones the runs need as well, and TLC shows that the
first two cannot be dropped: `broker_use_after_free` and `broker_two_receivers`
are the counterexamples. A failing allocation makes a walk leave out a subscriber,
so that `ChannelLog`, which has no gaps, needs the third; the invariants say
themselves what they claim only while nothing has failed.

The layers of the argument:

1. `LocalInv` and `LockInv`: what a thread's program counter says of its own
   variables and of the mutexes it holds. `_channels_mutex` and the mutex of each
   channel have one holder, who is in the critical section.
2. `ProxyInv` and `InsideInv`: a proxy in a channel's list is neither freed nor in
   the hands of somebody about to free it, and a worker's walk stands at a list
   whose mutex it holds. `WorkerTouchesLive` is not inductive without it: what
   keeps a proxy alive under a walk is that unsubscribe needs the same mutex.
3. `NamesInv` and `MembersInv`: objects in the table differ, and, while no
   allocation has failed, a lookup that missed holds `_channels_mutex` until its
   insertion, and each subscription is in exactly the list its place says. That a
   proxy is in one list, once, needs no such condition.
4. `YieldInv`: the inbox of a receiver between its test and its dequeue is not
   empty; nobody else takes from it when the subscription has one receiver.
5. `HeadsInv` and `DueInv`: the objects found under two names differ, and a member
   that is owed a message is ahead of the walk in the list, or has it.
6. `OrderInv` and `PrefixInv`: the messages a subscription has got are in the order
   in which their deliveries took the channel's mutex (the log), a message enters
   the log once, and the subscriptions a walk has yet to visit do not have its
   message. A failing
   allocation leaves a message out and disturbs none of this, so that `SameOrder`
   holds for every number of faults.
7. `CallInv` and `StrandInv`: who holds `_inbox_mutex` and who sleeps; and for each subscription, the messages in the inbox are no more than
   the receivers awake inside the call, or a signal or a broadcast is on its way,
   or nobody sleeps. `NoReceiverStranded` follows, and not the other way round: the
   count is what a signal that wakes one of several sleepers preserves.
8. For the refinement, `OnceInv` (every message is worked on once), `BegunInv`
   (the log of a channel ends with the message of the worker that walks it) and
   `LagInv`: a subscriber's join index and deliveries add up to the length of the
   log, or to one less while the walk has yet to come to it. A step of the log is
   a delivery's first step under the channel's mutex; subscribers follow as the
   walk passes them; all other steps stutter.

### List

`GenericLinkedListProofs` proves, for any finite set of nodes and any sets of
objects and iterators (`ListAssumption`):

| Theorem | Statement |
|---|---|
| `TypeCorrect` | `Spec => []TypeOK` |
| `LinksAreConsistent` | `Spec => []WellLinked` |
| `ObjectsHaveOneOwner` | `Spec => []Ownership` |
| `IteratorsStayInTheList` | `Spec => []IteratorsLive` |
| `ListIsASequence` | `Spec => ImplementsIteratedList` |

One invariant, `IInv`, carries all five. `ChainInv`: the links are those of the
sequence `order` between the guards, no node is in it twice, `_size` is its
length, and a freed list is empty and has no open iterators. `OwnInv`: the objects
in the list are those its nodes point to, and no two nodes point to the same one.
`IterInv`: an iterator that is not stale is at a node of the chain. None of them
is inductive alone: that a removal relinks the right neighbours needs the chain,
that an iterator's removal relinks anything at all needs the iterator in it, and
types need both, since a link followed from a node outside would be `NULL`.

The proof numbers the places of the chain, guards included. The two insertions
are one lemma on chains (`LinkIn`) and the three removals another (`LinkOut`);
the calls only say at which place. What the loops compute is proved by induction
on the number of links followed (`ReachedForward`, `ReachedBackward`,
`WalkIsRange`): from place `p`, `k` links lead to place `p + k`, or to the guard.
The induction theorems of the library take an operator and cannot be used, so
`NatSetInduction` in `SequenceLemmas` states induction for a set of numbers, from
the fact that every non-empty set of naturals has a least element; the existence
of the recursive function in `Reached` is proved the same way. The number of
elements never exceeds the number of nodes (`LengthBound`), so the bound in
`Walk` cuts no walk short.

### Queue, hash table, server

| Module | Theorem | Statement |
|---|---|---|
| `GenericQueueSynProofs` | `TypeCorrect` | `Spec => []TypeOK` |
| | `DataHasOneOwner` | `Spec => []ElementsConserved` |
| | `QueueIsAtomic` | `Spec => ImplementsAtomicQueue` |
| `GenericHashTableProofs` | `BucketsAreExclusive` | a thread in a critical section holds its bucket's mutex |
| | `PairsAreConserved` | `Spec => []PairsConserved` |
| `NetworkServerProofs` | `TypeCorrect` | `Spec => []TypeOK` |
| | `SubscriptionHasOneReader` | `Spec => []OneReader` |
| | `SubscriptionHasOneOwner` | `Spec => []SubscriptionOwned` |
| | `ReceiversJoinedOnce` | `Spec => []JoinsOnce` |
| | `NothingIsLostByDetach` | `Spec => []NothingLostByDetach` |

*Queue* (`QueueAssumption`). The thread between lock and unlock is the holder of
the mutex, and only the holder changes the list, so that what it has seen of the
list in a walk is a prefix of the list as it is now. The refinement maps a call to
the step at which its last list call happens; what makes it go through is that the
answer a walk is building agrees with the part of the queue it has seen.

*Hash table* (`TableAssumption`). Mutual exclusion for each bucket, with the buckets that
`InsertLinkFails` leaves locked belonging to nobody; then, by place, who holds each
pair: a thread that has allocated and not linked it, a list, one that has unlinked
and not freed it, or nobody.

*Server* (`ServerAssumption`). `ThreadsInv` ties the receiver's place to the
handler's: a handler without a subscription, before "spawn" ends or past its join
has no running receiver. `OwnerInv` says, by the handler's place, who owns a
subscription; `JoinInv` that a handler that holds one has a receiver to join, from
its creation on and not only when the join is due, unless its connection is in
`failed`: the failures of others do not matter. `LogInv`
and `TakeInv` add that the log has no message twice and that the message a receiver
holds is the last one taken, without which the order across DETACH and ATTACH is
not inductive.

### Only model-checked

* All liveness properties (`WF_`, `SF_`, `ENABLED` are outside the prover's reach).
* `ImplementsConcurrentMap`. Its mapping selects the pairs of one key from a chain
  with `SelectSeq`, which takes an operator and is recursive, and counts the pairs
  of all buckets. What both do when one pair is linked or unlinked needs an
  induction over the chain, which has not been carried out.

## Not modelled

* Message contents, string copies, logging, hashing, the text and the order of the
  server's answers, the parsing of commands. A refused PUBLISH leaves its content
  in the stream, where it is read as commands: the model's peer may send any
  command at any time, which includes them.
* TLS and sockets: a write is one step, which may be blocked before it. That a handler and a receiver write to one
  `SSL` object at the same time is listed as a hazard without a property.
* `main.c`, a demo with a fixed sequence of calls; the tests and Python clients.
* Functions that only read a field: the getters of free, copy, hash and compare
  functions, of the capacity and of the port, and of messages.
* Use after free by API misuse that no caller in the repository commits (freeing a
  pool with clients inside, using a stale iterator, freeing the server with
  handlers left).
* Failing constructors of the containers and of the server: nothing is running yet.

## Plan

The models cover the components; what is left is proof: the hash table's
refinement of `ConcurrentMap`. First what `SelectSeq` yields on a chain with one
pair more or less, by `NatSetInduction` on the length of the chain; then the count
of pairs; then the mapping, step by step as for the queue.
