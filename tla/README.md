# memif: a verification development

memif lets a program hand memory copies and page migrations to the kernel
without a system call for each: requests travel through lock-free queues in a
memory region that the program and the driver share, and the driver carries them
out by DMA. A library drives the EDMA3 engine of the board from user space. This
directory holds TLA+ models of these protocols, the TLC configurations that check
them, and TLAPS proofs.

Source paths below are relative to `src/`. `migrate-x86.c` means
`migrate-x86/migrate-x86.c`, `multi-chan.c` means `migrate-x86/migrate-x86-multi-chan.c`,
`migqueue.c`, `mig.h` and `edma3.c` those of `libsmm/` (the copies of `migqueue.c` under
`migrate-x86/` and `test/kernel-driver/` are identical).

## 1. The system

| Component | State | Operations | Correct when |
|---|---|---|---|
| Queues and freelist (`migqueue.c`, `mig.h`) | `desc_array`, one link word per descriptor; `freelist.top`, `aba_counter`; head and tail of `qreq`, `qissued`, `qcomp`; the colour in every link | `freelist_add/remove`, `mig_enqueue`, `mig_dequeue`, `migqueue_set_color_if_empty`, `migqueue_color`, `migqueue_is_empty`, `init_migregion` | linearizable FIFO with one colour per queue, descriptors conserved, lock-free |
| User library (`migusr.c`) and the programs that use it (`test/runtime.c`, `test/test-mig.c`) | descriptors in hand, poll set | submit (and kick if the colour was the user's), poll, collect, free | every request submitted is reported once |
| Kick (`user_flush`, in `if_write`) | requests in its hands | drain `qreq` into `qissued`, repaint `qreq`, issue one request with an interrupt | whoever repaints the queue starts exactly one chain |
| Softirq and worker (`dma_callback_kthread`, `kernel_flush_work`) | one `mig_table` per transfer | report, wake pollers, carry out the rest with a sleep for each in place of an interrupt, give the colour back | no request is left when the colour goes back; pollers are woken |
| Older path `MIG_MOVE_SINGLE` (`flush_single_qreq`, `migrate_pages_ks2`, `do_dma_complete`) | table with its slots, page list and requests; mm reference; `qissued` in FIFO order | flush all requests into one transfer, unmap, complete, flush again | requests, slots and pages stay matched; the mm reference is dropped when the chain ends; no `BUG()` |
| Page migration (`issue_one_desc_mig`, `install_new_pte`, `dma_complete_one_mig`) | ptes, page flags and locks, the global `huge_page` | replace ptes, copy, detect a race by compare-and-swap | a page written during the copy is detected |
| 16-channel driver (`multi-chan.c`) | global `my_counter`, `test_flag`, `chans` | split a request over 16 channels, complete on the last | every page copied; reported once, after the last channel |
| EDMA3 library (`edma3.c`) | channels, linked PaRAM sets, pending bits | allocate and free; geometry of a transfer; single, repeated, self-chaining, gathered and preloaded transfers; waiting | the engine does what was asked, in order; nothing is left for the next owner |

How they interact: shared memory (the region) between the program and the driver;
system calls from the program (`write` to kick, `poll` to wait); an interrupt and
a softirq from the DMA engine to the driver; a work item from the softirq to the
worker; a wait queue from the driver to the program; registers and PaRAM memory between
the EDMA3 library and the engine.

What is hard: the queue is read in several steps and committed by one
compare-and-swap, on words that are recycled; the colour decides between two
parties who may both be right to believe it is their turn; a completion can come
at any point of a program's decision to sleep; tables, mm references and global
variables outlive the step that owns them; sixteen callbacks share a counter; pages are
matched with requests by their order alone while the kernel takes some of them away; the
engine overwrites the parameter sets it is given. `PROJECT.json` lists these hazards by line.

## 2. Modules

| Module | What it is |
|---|---|
| `ColorQueue` | what a family of coloured FIFO queues promises: put (tells the colour), take, repaint if empty |
| `MigQueue` | the code of `migqueue.c`, one step per access to a shared word; refines `ColorQueue` |
| `MigQueueLag` | the same behaviour with history variables: how many steps a thread's checkpoints have missed, and whether a swap has taken a recycled link for the one its thread had read |
| `MCMigQueue` | threads, queues and calls of its runs |
| `MigQueueProofs` | TLAPS proofs of the types of `MigQueue` |
| `MigQueueChainProofs` | TLAPS proofs that `MigQueue` keeps its chains and implements `ColorQueue` |
| `MemifService` | what a memif device promises one program |
| `Memif` | user threads, kick, DMA channel, softirq, worker, poll; one step per queue operation; refines `MemifService` |
| `MCMemif` | instances of `Memif` |
| `MemifProofs` | TLAPS proofs about `Memif` |
| `MemifServiceProofs` | TLAPS proofs that `Memif` loses no request and, for one user, implements `MemifService` |
| `PageMig` | migration of pages while the program uses them: page table, TLB, frames with their references and lists, DMA, compare-and-swap |
| `MCPageMig` | pages, frames and requests of its runs |
| `PageMigProofs` | TLAPS proofs about `PageMig` with small pages, or with one device |
| `MoveSingle` | the `MIG_MOVE_SINGLE` path: requests, tables, migration passes, transfer, completion work, the mm reference |
| `MCMoveSingle` | requests, pages and tables of its runs |
| `MoveSingleProofs` | TLAPS proofs about `MoveSingle` |
| `MultiChan` | the driver that cuts every request over all channels; refines `MemifService` |
| `MCMultiChan` | instances of `MultiChan` |
| `MultiChanProofs` | TLAPS proofs about `MultiChan` and the cutting |
| `EdmaGeometry` | `get_xfer_geometry`: how many arrays of how many bytes |
| `Edma` | the EDMA3 library and the engine it programs |
| `MCEdma` | instance of `Edma` |
| `EdmaProofs` | TLAPS proofs about the geometry and about `Edma` |

`Memif` uses the queues as `ColorQueue` describes them: an operation is one step.
`MigQueue` is where that is justified.
`PageMig` is one step down from `Memif` on another side: it spells out what `Memif!Issue`,
`CallbackPost` and `WorkPost` stand for when the request is a migration, and takes the
chain of a device for granted (`KickStart`, then any number of `WorkStart`, `WorkEnd`).
`MultiChan` replaces the channel of `Memif` by several, and joins the steps on the queues
which `Memif` keeps apart; it promises the same service. `MoveSingle` is the other path through the same
driver and stands alone; `Edma` is the other way to a DMA engine, without the kernel.

### MigQueue and the code

Every label `pc[t]` is a place in the C function of the same prefix: `pop_`
(`__freelist_remove`), `push_` (`__freelist_add`), `enq_` (`mig_enqueue`), `deq_`
(`mig_dequeue`), `paint_` (`migqueue_set_color_if_empty`). `frame[t]` holds the
local variables (`head`, `tail`, `next`, `top`, `tmp`), `hand[t]` the descriptor
the caller has. `next[n]` is one word used both by the freelist and by the queues,
with index, 16-bit counter and colour, as in the code. `mig_dequeue` calls the
freelist for its replica and to retire the old head, so `pop_` and `push_` steps
occur inside a dequeue. Loads are separate steps; a store to a descriptor that only
the thread owns is joined with the access before or after it. Memory is taken as
sequentially consistent. The colour of a word on the freelist comes from an
uninitialised stack variable (`tmp` in `__freelist_add`): it is chosen from
`StackColor`.

Not in the model: the statistics counters, `refcnt` (compiled out), the colour in
head and tail (never read), `init_migregion` as a step (see hazards).

### Memif and the code

`upc[u]` is where a user thread is: `kick`..`issue` are inside `if_write` and
`user_flush`, `poll` and `asleep` inside `poll(2)`. `tpc[t]` is where the chain of
table `t` is: `dma` (in the channel, interrupt to come), `callback`, `notify` (the
softirq `dma_callback_kthread`), `work`..`wake` (`kernel_flush_work`). A chain is
named by the table it starts with, until the worker returns. `chan` is the DMA
channel, in order. A request keeps its name although the library copies it to a
new descriptor.

External, modelled by how the driver uses it: the DMA engine (`DmaDone`), the wait queue
(`WakePollers`, `PollWoken`).
`LooksEmpty` keeps the one detail of the queue that matters to `poll`: a request
that is linked while the tail has not been moved does not show.

The worker's transfers raise no interrupt. It sleeps for a time guessed from the size of the
request, and then asks the channel for the status of cookie 0 (`migrate-x86.c:5151`). That
names no transfer, and the dmaengine, which compares it with the cookies it has used and
completed, answers `DMA_COMPLETE` wherever the channel is. `WorkWait` is that: it has no
guard, the ten looks end with the first and `BUG_ON(i == 10)` is never reached. So the
worker may report a request, and the program use its descriptor again, while the transfer is
in the channel; transfers pile up there. `Ring` is the room of the channel. When it is
used up `device_prep_dma_sg` gives `NULL` and `BUG_ON(!tx)` ends the kick (`FlushFull`) or
the chain (`WorkFull`). Of a request that starts a chain more is true, because its
interrupt comes when the channel has got to it: `InterruptedIsDone`.

Abstracted: pages and their copying (see `PageMig`; `Issue` stands for the transfer that
`issue_one_desc_copy` submits); requests outside a mapping, which its first half refuses; mm
references; time (the sleep of the worker takes any time, the timeout of `poll` is left
out: a program that had to rely on it would be told so by `SleeperWoken`); the memory of
tables; spare descriptors for `mig_dequeue` (assumed to be there); `migqueue_color` is one step.

### PageMig and the code

`phase[d]` is where device `d` is: `follow`, `isolate`, `replace`, `save` are the parts of
`issue_one_desc_mig`, `dma` the transfer, `cas` and `settle` the two halves of
`dma_complete_one_mig`, which the softirq and the worker call alike, `worker` the head of
the loop of `kernel_flush_work`. `bug_isolate` and `bug_replace` are its `BUG()`s. `at`,
`opage` and `saved` are `j`, `opage[]` and `pg_desc[].pte`; a new frame is known by the
entry that was installed for it. The loops go page by page, and a page in several steps.
The one that matters most is inside `install_new_pte`: `Replace` sets the new entry
(`set_pte_at`, line 501), `SaveNewPte` reads the entry back from the page table into
`pg_desc` (507), and between the two the program may have written the page. The function holds the page
table lock, which keeps other devices out (`Follow` waits for it) but not the processor of the program.

As in `Memif` the worker learns nothing from its question to the channel: `Hurry` lets it go on
with `dma_complete_one_mig` before the transfer is done, for a request it has issued
itself (`polled`). What frames show is not followed from then on: nothing can be
promised of it. Page table, locks, references and lists are.

`place` and `count` follow a frame through the kernel: free, just allocated (`fresh`),
isolated, in a pagevec, on an LRU list or on the list of active huge pages. References are
those of `page_count`: one for the mapping, one for each `FOLL_GET`, one for the isolation
(or the allocation), one for a pagevec. A page of 2M and its frame are one unit like a 4k
one. `content[f]` is the last write that shows in a frame.

External, modelled by how the code uses it: the program and its processor (`Write`, `Read`,
`Evict`: a translation that is cached as dirty is written through without a look at the
page table, any other one sets the entry's bits), the DMA engine (`Copy`, a page at
a time), the kernel's page lists (`Drain`).

`written`, `stale`, `raced`, `gap`, `hurried` are history variables: the last write to a page, whether a
write has gone through a translation that the page table no longer backs, the pages on
which a race was found, the pages written between the setting of an entry and its reading back, whether
a worker has gone on too early.

Left out: pages mapped by several processes (`BUG_ON(page_mapcount(page) > 1)`), page
flags, the node a frame belongs to, read-only mappings, reclaim of pages during their
migration.

### MoveSingle and the code

`pc` says where the user thread and the work of every table are: `take` to `move` are
`flush_single_qreq` (loop over `qreq`, isolating the pages of a request, `qissued`, the
repainting, the `mmput` when nothing is to be moved, `migrate_pages_ks2`), `dma` and
`callback` the transfer, `remap` to `look` `do_dma_complete` with `dma_complete_one`, the
reporting, and the look at the colour that makes it flush again. A table that is being
filled by somebody is `built`. The `bug_` labels are the `BUG()`s of this path.

`slots`, `list` and `migs` are `pg_desc[].mig`, `pagelist` and `pg_desc[].page`: they are
filled by different loops and matched by their order. `todo`, `pass` and `retry` are the loop of
`migrate_pages_ks2`; an iteration for one page is one action: `PageGone` (freed "from
under us"), `TryAgain` (`-EAGAIN`), `PagePending` (unmapped, to be transferred).
`other[p]` is what another part of the kernel holds of a page, `where[p]` the list it is on,
`node[p]` where its contents are; `same` says which new frames show what the old ones do,
`lost` which pages have lost a write.

The mm is its count `mmUsers`: one for the program while it is alive, one for the chain.
Left out: pages of files, huge pages, failures of the allocator (`nr_failed` is then 0),
more than one user thread (as in `Memif`, two can both be told to kick, and the second
runs into `BUG()`), and unmapping by the program.

### MultiChan and the code

`Arm`, `Reset`, `SubmitPiece` are the parts of `issue_one_desc_copy` and `issue_one_desc_mig`:
`atomic_set` of `my_counter`, `test_flag = 0`, and the loop that submits a slice to each
channel. `irq[d]` is the flag that asks for an interrupt. Channels copy in their own
time (`ChannelCopies`); a finished slice is in `raised` until its callback has returned.
`CallbackStamp` and `CallbackMark` are the read and the write of `test_flag` around `cmplet_time`,
`CallbackCount` `atomic_dec_and_test`, `CallbackFinish` the rest for the last of them.
`WorkPoll` asks the channel of the device (`info->chan`) for the status of cookie 0, as in `Memif`, and
goes on whatever any channel has done. A channel has room for `Ring` slices; when
there is none for the next one `SubmitFull` is `BUG_ON(!m_tx[i])`, with the channels before it
already at work. The user thread that hits it does not come back (`UserRuns`).

`user_flush` and the loop of `kernel_flush_work` are one step each on the queues, because the
interleavings of their queue operations are the subject of `Memif`. What the pages undergo
is in `PageMig`.

### Edma and the code

An action is a function of the library up to where it waits; the wait is a second action
(`StartXfer...`/`WaitXfer`, `StartGather`/`WaitGather`, ...), so that two handles interleave with the
engine. (A program of one thread can do nothing while a function that waits by itself does; the model lets it go on
with the other handle, which allows more.) `param` is PaRAM memory, with source, destination, the counts, link, and the two
flags in the options (chain to itself, interrupt). `TakeSet` and `Done` are the engine, `ipr` the
register of pending completions, `Grants` TI's resource manager. `asked` and `log` are
history: what the program has asked a channel for, and what the engine has done.
`EdmaGeometry` computes the counts; both are truncated to the width of their fields there.

A call that the library refuses ends the program with an assertion: `Abort`, for a channel that is not granted
(channel 2 is in use for `StartSelfChaining`, which asks for that one: `Second`), a size that cannot be split, a gather of
more buffers than there are sets or without preloading, a second preloading. Freeing a channel without linked
sets frees whatever `malloc` has left in `links` (`edma3.c:1514`): it may succeed (`FreeChannel`) or end
the program (`UninitializedFree`).

What the library accepts is in the model also where it goes wrong. A transfer that chains itself and has one
set asks for no interrupt, and its wait does not return; nor does the wait for a transfer whose number of arrays does not
fit its field (1 GiB in the code). `Hung` names these calls, and `WaitReturns` says that there
are no others. One obligation of the program is taken from a comment (`edma3.c:961-962`, `Unclobbered`): a channel
whose sets have been preloaded is used for preloaded gathers only until it is freed, since
any other transfer overwrites the sets and nothing restores them.

Left out: `edma3_init` and `exit`, mapping of registers, error interrupts, the semaphores
of the resource manager, `edma3_check_xfer`, a linked channel with no links. Handles are used from one thread, as in the tests.

## 3. Runs

| Run | Instance | Shows |
|---|---|---|
| `queue_forward` | 2 threads, 2 queues, 6 + 4 calls, `CountMod` 8, one colour as stack garbage | `TypeOK`; `OnePlace`: every descriptor is in exactly one place; `ColorsAgree`: all links of a queue carry its colour |
| `queue_race` | 3 threads, 1 queue, 2 calls each, 16-bit counters | `ImplementsColorQueue` (atomicity), `NullIsHonest`, `NoBug` (assertions, and a spare descriptor for every dequeuer), `EachRequestOnce`: a request is in one descriptor although `mig_dequeue` copies it; `RequestsKept`: only `freelist_remove` brings a request and only `freelist_add` ends one; `LockFree` |
| `queue_aba` | 3 threads with 2 + 2 + 5 calls, 1 queue, 4 descriptors, 16-bit counters | a request is linked behind a descriptor that is not the last (violates `LinksAtTail`) |
| `memif_one_user` | 1 user, 3 requests, 2 tables, `Ring` 2 | the colouring protocol is right for one thread; nothing is duplicated or dropped (`OnePlace`) or missed by `poll` (`NoLostWakeup`); the request that starts a chain is not reported early (`InterruptedIsDone`); unless the channel is full, refines `MemifService`, fairness included, and sleepers are woken |
| `page_one_device` | 1 device, 2 huge pages, requests of one and of two pages, 4 frames, 2 writes | `NothingLost`: a write during a migration is in the new frame or detected, but for the three cases named below; `NothingHeldAtRest`: without a race everything is unlocked and put back |
| `page_same_page` | 2 devices, 1 small page, 4 frames, 2 writes | both devices migrate the same page: `FramesApart`, `RefsBalance` hold, although one of them may end in `BUG()` |
| `page_stale` | 1 device, 2 pages of which one migrates, 2 writes | a write through an old translation is lost and not detected (violates `EveryWriteKept`) |
| `chan_one_device` | 3 channels, 1 device, 2 requests of 3 pages, `Ring` 2 | `CounterCounts`, `FlagInBounds`, `FinishedIsCopied`; refines `MemifService` unless a channel is full (`ImplementsService`) |
| `chan_early` | the same | the worker reports a request whose slices are not all copied (violates `ReportedIsCopied`) |
| `edma_two_channels` | 2 handles, 2 channels, 2 more sets, up to 3 transfers a call for one handle and 2 for the other | the engine does what each call asked, in order (`CopiedAsAsked`); preloaded sets are restored (`PreloadIntact`); no link leads into another's sets (`LinksAreOwn`); nothing is left for the next owner (`QuietWhenIdle`); waits return but for the calls that hang (`WaitReturns`) |
| `move_one_user` | 1 user, 2 tables, 3 pages, 3 requests (one page there and back, two others there), so that a table may have slots of both nodes | `MmAccounted`, `ColorsExpected`, `HeadsMatch`, `ReportedIsMoved`, `NothingLost`, `ReportedUnlessBug` |
| `move_exit` | the same | the program exits while the chain ends: the semaphore of an mm is released after its last reference (violates `MmStays`) |

Bounds. In `MigQueue` the only bounds are the number of calls of a thread and the
size of the region. Six calls in `queue_race` are enough for a dequeuer to overtake two
others; at most two requests are under way, so the five descriptors leave one for each of the two
dequeuers (`Reserve`: with three `NoBug` fails). In `queue_forward` a descriptor goes through freelist, both queues and back,
and is used again; `CountMod` 8 makes counters wrap there, `queue_race` keeps 16 bits.
`Memif` has no bound but its sets: three requests are one in the channel, one in
`qissued` and one in `qreq`; at most one chain per table can be under way, and the
second table lets a second chain start. `Ring` 2 is enough for a transfer to be in the channel
behind one that has been reported already, and for the channel to be full. One user is where the colouring protocol works; that
`OnePlace`, `InterruptedIsDone` and `NoLostWakeup` survive any number of users is proved. Symmetry is used
for the `page_` runs only, which have no temporal property.

In `PageMig` the only bound besides the sets is `MaxWrites`, the writes of the program in
total: two are enough for one that a later one must not be mistaken for, at any two points of a
migration, in the gap of `install_new_pte` among them. Four frames let a
page move twice before its first frame comes back, and run out when races have left some
behind, so `OutOfFrames` happens. Frames and devices are symmetric; all its properties
are invariants.

In `MultiChan` three channels are the first, one in between and the last; a page for each makes
every slice count. `Ring` 2 lets the slices of two requests meet in a channel, and a third find it full while
other channels are empty; the two requests are submitted again and again. In `Edma` the
limits are scaled down: 8 and 4 bytes for a single and a repeated array, 2, 4 and 8 arrays, fields
below 8; sizes are one that fits one array (5), one that needs four (12), one that cannot be split (13), and one
whose eight arrays the field shows as none (24), as 1 GiB in the code. Three
transfers are the least with a set that is neither the first nor the last; the second handle has calls
of up to two, so that together the handles ask for three linked sets and there are two: both own some, and
they are handed on.
In `MoveSingle` three pages exactly fill a table (`MaxSG` 3). One of them is to go to node 1 and back to node
0, the others to node 1: on its way back the first shares a table with the others, and slots and pages
that are matched wrongly have different nodes. The first is used by other
parts of the kernel at any time (`Busy`). `Passes` is 4 (10 in the code) and `Patience` 2: a pass before, one at
and two after the point where `unmap_and_move_ks2` begins to sleep for the page lock.
`Passes` and `Patience` only decide which passes may meet a locked page; that a pass is repeated
with pages pending needs two.

The configurations switch deadlock checking off: threads stop when they have made their calls, a
program may have nothing more to ask for, and whoever has run into `BUG_ON` or an assertion stays there. That nothing
else stops is what the liveness properties say.

Fairness. `LockFree` assumes that one thread keeps running, nothing of the others.
`FairSpec` of `Memif`, `MultiChan`, `Edma` and `MoveSingle` is weak fairness of what runs by itself: a system
call that has begun, the DMA engine, a pending softirq, a scheduled work item, a
woken thread, a wait that can return. Nothing makes a program submit, collect or poll.
`MoveSingle` adds two things: other parts of the kernel let go of a page in the end
(`WF` on `LetGo`; page locks and references are held for a while), and strong fairness of `FlushStep`, since `lock_page` is a
queue of sleepers: who waits gets the lock although others may take it in between.

### What the failing runs show

* `queue_aba`. The counter of a link does not only grow: `freelist_add` overwrites the whole link with a
  copy of the top of the freelist, which is `{BADINDEX, 0}` when it is empty, and `mig_enqueue` resets only
  the index. A sender sleeps between `migqueue.c:172` and `195`; its tail node is retired, freed to the bottom of the
  freelist, taken again and sent again, so that its link looks as it did. The swap succeeds and the request is linked
  behind a descriptor that is not the last of its queue. The call sequence is an ordinary one; nine calls on four descriptors suffice.
* `page_stale`. `install_new_pte` replaces a present entry without flushing the TLB. The
  processor may hold the old translation, with the dirty bit set; what the program writes
  after the copy goes to the old frame, the new entry stays clean, and the
  compare-and-swap succeeds. `NothingLost` is what remains true when three cases are left out: such a write
  (`stale`), a worker that goes on before its transfer is done (`hurried`), and the write in the gap of
  `install_new_pte`, described under "What larger instances do" (`gap`).
* `chan_early`. The worker's requests raise no interrupt. It asks the channel that belongs to
  its device file for the status of cookie 0, which says `DMA_COMPLETE` whatever this channel and the fifteen others
  have done, and reports the request. `migrate-x86.c` asks the same question of its one channel; there too the request is
  reported, and its descriptor or its pages are used again, while the transfer may not have begun.
* `move_exit`. When the chain finds nothing more to do, `flush_single_qreq` puts the reference that `if_write`
  had taken and then calls `up_read(&mm->mmap_sem)`. If the program has exited meanwhile, that was
  the last reference.

### What larger instances do

Instances of the same modules with other constants, in which a property of the runs fails. They
are not among the runs.

* `Memif`, two users: both can find the user's colour and kick; one repaints and starts
  a chain while the other is still draining. The later one may find
  `qissued` empty (`BUG_ON`), or leave a request there that the worker has just
  stopped looking for. The comments of the driver argue
  that colouring keeps user and kernel apart, which holds for one user thread (proved
  below); `pthread_task1` of `libsmm/test/runtime.c` runs several threads on one device.
  With one thread the worker never finds a request in `qissued` when it scans it; that path is
  covered by `OnePlace`, `InterruptedIsDone` and `NoLostWakeup`, which are theorems for any number of users.
* `PageMig`, a write in the gap: `NothingLost` without its exception for `gap` is violated by one device and one page. The kick
  looks the page up, isolates it and sets the new entry, young and clean; the program writes the page, which marks that entry
  dirty; `install_new_pte` reads the entry back, dirty as it is; the engine copies the old frame over the
  write, and the compare-and-swap finds the entry it expects. The write is lost and nobody is told. The comment at 503-505
  asks for the reading back because `set_pte_at` may add bits, and does not think of the processor.
* `PageMig`, two devices and a huge page: for a small page that another device is migrating, the driver stops
  at `BUG()`; for a huge one it drops its reference and goes on. `trylock_page`
  is then the only protection, and it is gone once the other device has settled the page
  (`FramesApart`). With pages of both kinds, the kind is taken from a global that the last
  request has set, and a page is put on the list of the other kind.
* `MoveSingle`, two pages of a table in use by others (`Busy`): a pass may leave one page locked and the other pending,
  and the next pass takes the pending one for gone. `migrate_pages_ks2` submits the transfer before its caller's
  `BUG_ON(err)` stops the system call; the engine goes on and the worker
  reports requests whose pages were never moved. `ReportedIsMoved`, like `MmAccounted`, is therefore about runs without a `BUG()`.
* `MultiChan`, two devices: the second resets `my_counter` under the first, and a request is
  completed before all of it is copied (`CounterCounts`, `FinishedIsCopied`). `OneDevice` is therefore an assumption of the theorems.
* `MultiChan`, a number of pages that the channels do not divide: the remainder is not copied; fewer
  pages than channels are not copied at all (theorems `SplitIsExact`, `FewPagesNoCopy`). The requests
  of the runs divide evenly.

### Seen in the code, in no property

* What a race leaves behind: `dma_complete_one_mig`
  returns early, both frames stay locked and off the lists, the request is reported like any
  other. `isolate_lru_page` then fails at the next migration of the page, and `BUG()` follows;
  the same happens when the worker migrates a page again that is still in a pagevec, since only
  the kick calls `migrate_prep`.
* `migrate_pages_ks2` repeats a pass with the pages that are pending still in the list; they look
  freed (`PageGone`), and `BUG_ON(nr_succeeded && nr_pending)` follows (`bug_retry` in the model).
* `edma3.c:2138-2148` gives a semaphore in the function that takes it and the other way round;
  `edma3_allocate_channel_linked` with no link writes `links[-1]` (`1462`); `edma3_check_xfer` clears the
  bit that a later wait needs (`2111`). The model leaves these calls and arguments out.
* Freeing a channel without links frees an uninitialised one (`1514`); a self-chaining transfer of one part has
  no interrupt (`1255`), and one of 1 GiB moves nothing. These are in the model (`UninitializedFree`, `Hung`).
* A chain is continued with the issue function of the request that started it
  (`migrate-x86.c:5073`), whatever the kind of the next.

## 4. Proofs

Every theorem is about all values of the constants that satisfy the named assumption of its
module.

`MigQueueProofs`, for any threads, queues, colours, descriptors and calls (`QueueAssumption`; an index is no
wider than a counter, as in the code, where both have 16 bits).

* `TypeCorrect`. `TypeOK` is not inductive: that an index read from memory names a descriptor depends on
  what has been checked since. `Roles` says it for each label, `Ends` that the ends of a queue are
  descriptors, `Counted` that a call has a number. The lemmas `...Effect` state what an access does to the
  thread that makes it, and are what all further proofs use in place of the definitions.

`MigQueueChainProofs`, for the same constants, about `LagSpec` of `MigQueueLag`. That is `MigQueue` with history
variables which no step of `MigQueue` reads, so every behaviour of `MigQueue` is one of `LagSpec`. The code trusts a
counter to tell a word from an earlier one with the same index. How far that trust goes is part of the theorems:

* `Timely` is a hypothesis: no counter goes once round (65536 steps of others) while a thread goes by a value of it.
* `strayed` is a conclusion: a variable that becomes true in the first step in which a swap takes the link of a descriptor that has been
  retired and used again for the one its thread had read. `queue_aba` shows that the code can take such a step on ordinary calls.
  So no theorem assumes it away. Each says what is true up to that step: `strayed \/ ...` of a state,
  `strayed' \/ ...` of a step. Nothing is claimed of what comes after it.

What follows:

* `OnePlaceHolds`: from `PlaceInv`. It says that there are chains `ch`, one
  for each queue and one for the freelist, which memory holds: `Shape` (links and ends), `Apart` (the chains
  and what threads own have no descriptor in common), `Tags` (the counter of a link on the freelist is the
  value `aba_counter` had so many steps ago; this is why its pop is safe and a queue's append is not), and for each thread what its checkpoints are
  worth: `HeadFacts`, `TailFacts`, `FreeFacts`, `LinkFacts`. A head of age 0 is the head of the chain, and all that is known of
  an older one is that the swap that goes by it will fail. The chains are existentially quantified;
  each access is shown to change them by nothing, `Append`, `Tail`, or a push or pop (`Extend`, `Drop`, `Prepend`).
  `OnePlace` walks the links by a recursive function; `Walk` of a chain is the chain, by induction over the
  length, where the set of lengths that agree is shown to contain 0 and with each its successor.
* `NullHonest`, also after such a step: from `HonestInv`. An answer `NULL` needs the head only: its counter shows that it was
  the head all along, so that its link, read in between, was the link of the head, and empty.
* `AssertionHolding`: the assertion of `mig_dequeue` on a head without successor, from `PlaceInv`. `NoBug` says in addition
  that the freelist is never empty when a dequeuer needs a replica.
* `ReserveSuffices`: `NoBug` (a finite set of threads), as long as `Reserve` holds: dummies,
  descriptors the callers have taken, and threads that may be in `mig_dequeue` are together no more than the
  descriptors. `Reserve` is an obligation of the callers: nothing in the code enforces it, and without it `NoBug` is false.
  It speaks of what the callers took only (`Taken`), not of what the queue's own code holds. `TakenIs` finds these
  descriptors in the chains; by `EmptyFreelist`, when the freelist is empty, any other descriptor is a dummy or the
  one (`Spare`) that a thread in `mig_dequeue` holds, be it its replica or the head it retires. The dequeuer that finds the
  freelist empty holds none (`MayTake`), so there are fewer descriptors than `Reserve` promises.
* `ColorsAgreeHolds`, `QueueImplemented`: from `DataInv`, which adds to `PlaceInv` that the links of a
  queue have one colour (`Colored`), that queued descriptors hold a request (`Filled`), and that a thread carries what it has
  read (`Carries`). `QueueImplemented` is `ImplementsColorQueue` for behaviours that never stray, and step by step up to the first step that does: `RefineInit` and `RefineNext` show each access to be a
  put, a take, a repaint, or a stutter of `ColorQueue`; the swap at `migqueue.c:195`, the one at `313` and the one at `134` are
  where the operations take effect.
* `EachRequestOnceHolds`, `RequestsKeptHolds`: from `ReqInv`, which adds to `DataInv` that what is
  taken holds a request that some caller has made (`Filed`, `Made`) and that only callers that may allocate ask for descriptors
  (`Asked`). Without `Made` a new request could be equal to one that is under way. `TakenStep` says how `Taken` changes in a step:
  the swap of `freelist_remove` adds a descriptor, that of `freelist_add` removes one, that of `mig_dequeue` exchanges the
  first of a queue for the replica. The copy is right at that swap by `Carries`: the head was the head all along, so what
  was copied is the request behind it.

`MemifProofs`, for any sets `User`, `Req`, `Table` and any `Ring`; the only assumptions on the
constants are that `None` is not a request and that `Ring` is a positive number.

* `Typing` (any number of users). `TypeOK` alone is not inductive: a
  transfer with an interrupt that ends moves the chain of its table, so one needs to know that this
  chain is waiting for it and that no other such transfer names the same table. That is
  `Interrupts`, and `TypeInv` is the conjunction.
* `Wakeup` (any number of users): `NoLostWakeup` is inductive together with
  `TypeInv`.
* `NoBugForOneUser`, `FlushesApart`, `OwnedColor`, `NothingStranded`: under
  `OneUser`, from the inductive invariant `Handover`. It adds to the four properties
  that a kick and a chain never coexist (`KickIsAlone`), that a kick always has a
  request left to start a chain with (`KickHasWork`), and that a worker which is past
  `qissued` has left it empty (`ChainLeavesNone`). Each is needed: without the second
  the pick could find nothing, without the third the worker could give the colour
  back over a request.

`MemifServiceProofs`, for finitely many users and tables (`Finite`, needed to count).

* `NoneLostOrDoubled` (any number of users): `Once` writes `OnePlace` as a sum over queues, freelist, threads and
  tables. Each action takes a request out of one term and puts it into another; `PushCount`, `PopCount`, `ThreadTakes`,
  `TableTakes`, `ThreadDrops` and `TableDrops` say by how much a term changes.
* `FirstIsDone` (any number of users): `InterruptedIsDone`. It is not inductive, since a request that the worker has reported early
  can be submitted again while its old transfer is in the channel. `FirstOfItsRequest` says that no transfer
  behind one with an interrupt has the same request: the request is in the hands of the chain that waits, and `Once` says
  that it is nowhere else (`HandsApart`). The channel works in order, so the older transfers are gone when the interrupt comes.
* `ServiceIsSafe` (`OneUser`): `Service!Safety`. From `Handover` at most one
  of thread and chain holds a request, so that the pipeline reads `InChain`, `HeldAt({"issue", "full"})`, `qissued`,
  `HeldAt({"move"})`, `qreq`; a request only moves on in it (`PipeTake`, `PipeMove`, `PipePick`, `PipeIssue`, `PipeScan`,
  `PipeTakeOne`), enters with `Submit` (`PipeIn`) and leaves with `CallbackPost` and `WorkPost` (`PipeOut`). Two things matter: the worker takes
  from `qreq` only when `qissued` is empty (`ChainLeavesNone`), and a request that is submitted is nowhere else (`Once`).

`MoveSingleProofs`, for any number of tables (finite), pages and requests.

* `TypeCorrect`, `NoSurprise`, `HeadsAreCompleted`, `OneChainAtATime`, `MmIsHeld`, from one inductive
  invariant. `Chain` says that there is one chain and who owns which table; `Colors` who may repaint the
  queue, and follows the chain; `Issued` that `qissued` is exactly what the chain's table has, from which
  `HeadsMatch` follows; `Tables` that pages wait only in a table being filled; `Referenced` that
  the mm count covers everybody who goes on. `Slots` is needed for typing: the slot that gives the
  node of the next new page exists, because every page that was unmapped or waits to be has one. It counts
  pages rather than entries, for a repeated pass looks at a page twice.
* `NothingIsLost`, whatever `BUG()` is reached, from `Untouched`: nobody holds a page that is unmapped (a reference
  comes through an entry, a lock with a reference, and `PagePending` needs that there is none), and
  a transfer that is complete has copied what the page holds until its entries are replaced.
* `ReportedAreMoved` as long as no `BUG()` is reached, from `Matched`. Slots, pages and requests meet only by
  their order, and a repeated pass destroys it: it takes the pages that are pending since the pass before for pages
  that are gone. So a table that is being filled is `Tidy` (its pages are unmapped in the order of its slots
  so far), `Waiting` (none is unmapped) or `Doomed` (a `BUG()` is certain: some are pending, and others are
  not, or will be looked at again). A table that is transferred without a `BUG()` was `Tidy`, so that
  every page is on its way to the node of the one request that asks for it (`Sent`); a program that asks for no page twice at a time
  makes that request unique (`Places`).
* `MmIsAccounted`: `Referenced` says at least, `Exact` says how many. The reference of a chain would be lost with a table
  that has nothing to transfer. A request has `1 << order` pages, at least one, and a `Tidy` table
  has them all pending. Nobody else unmaps pages in the model: a program that calls `munmap`
  on a page it has asked to move is not covered.

`MultiChanProofs`, for any number of channels and requests, under `OneDevice`.

* `SplitIsExact`, `FewPagesNoCopy`: arithmetic of the slices.
* `TypeCorrect`, `CounterIsRight`, `FlagIsInBounds`, `FinishedIsComplete`: the inductive invariant
  says of every channel that it is clean, has a slice of the current request, or is in its
  callback (`Channels`), that the counter is the number of channels not counted yet (`Counts`), that
  `test_flag` never exceeds the number of callbacks that have marked their time (`Flags`: increments may be
  lost, never gained), where a request is (`Places`) and that the channels that are done have
  copied their slices (`Copies`). `FinishedIsComplete` needs requests that divide evenly.
* `ServiceIsSafe`: every step is a step of `MemifService`, or a stutter. A request is pending while it is in the queue or
  being carried out; it is done with the step of whoever reports it, the last callback or the worker. `AtFinish`
  says that the slice the last callback has in hand is of the current request, so that it is the oldest pending
  one; `Idle` that the next request is taken up when there is no current one; and `Places`
  that a request submitted again is nowhere else. It says nothing of the pages, which the worker may report too early (see the findings).

`PageMigProofs`, for any number of pages, frames and requests, and either small pages only and any finite
number of devices, or pages of both sizes and one device (`SmallOrAlone`; with huge pages and two devices
`FramesApart` and `RefsBalance` do not hold, see above).

* `TypeCorrect`, `OnePurpose`, `ReferencesBalance`, `WritesSurvive`, `NothingHeld`, from one inductive
  invariant of four parts. `Typed` adds to the types how far a device has filled `opage` and `saved` in
  each phase (`Shape`), from which the positions it holds follow (`Positions`), and that
  `huge_page` tells the kind of the request that is under way (`KindKnown`).
* `Frames` says who has a frame. `FramesApart` is not inductive: a device looks a page up long before
  it replaces it, and another may migrate the page in between. `Found` says what is true of such a frame:
  it still backs the page, or it backs nothing and its lock or `page->mapping` shows that, so
  `install_new_pte` is never reached with it. With huge pages there is no second device, and it still backs the page;
  but a page that a race has left locked makes `isolate_huge_page` fail, so `Isolated` allows for the page at hand
  not to be off the lists if it is locked: the device stops there. `Isolated` and `HoldersApart` say that only one device has a frame off the
  lists (`isolate_lru_page` fails for the second), `TargetsApart` and `Transfer` that a new frame stays where it
  was installed, locked, until it is settled. `RefsBalance` is needed for all of these: a frame that somebody
  refers to is not free, and is not allocated again. `Sorted` says that a mapped frame is on the list of
  its kind and, if it is off the lists, why it is: it is locked, or its page is the one at hand.
* `Contents` is `NothingLost` and what it rests on: while an entry is still the one that was installed,
  the last write to its page shows in the old frame, or in the new one once it is copied (`Data`); that
  needs entries that are installed young and clean (`Entries`), for a write makes them differ. Between the
  setting of an entry and its reading back the driver does not know it yet (`Unread`): a page that is written then may be
  saved with a dirty entry, and is one of those of which nothing is claimed.
* `Owned`: without a race, what is locked or off the lists belongs to a position that some device holds, or
  a device has stopped. `NothingHeld` is the case where no device holds anything.

`EdmaProofs`, for any number of handles, channels, sets and transfers.

* The geometry: `GeometryExact` for every size that can be split, `FieldsHold` when the counts tried
  fit their fields, and with the numbers of the code `BelowOneGiB` and `OneGiBIsEmpty`: 1 GiB exactly
  passes all checks and is programmed as nothing.
* The theorems about the channels assume `ExactOrEmpty`: a size that can be split is programmed as itself or as nothing.
  That is true of the code, for all sizes (`CodeIsExactOrEmpty`), and of any limits whose counts fit their
  fields (`FittingIsExact`); the run has one that does not fit, and is shown as nothing. A call that the engine ignores never ends, which is
  a matter of `WaitReturns`; the theorems say that it does no harm either.
* `TypeCorrect`, `RestIsQuiet`, `CopiesAreAsked`, `PreloadSurvives`, `LinksStayOwn`, from one inductive
  invariant. `CopiedAsAsked` is about what has been done, so it takes what is still to be done: by `Progress`, each
  set that is still to be loaded `Describes` its transfer, links to the next set and, by its place, chains or reports,
  and so does what the engine has already copied into the channel's own set (`Loaded` is the number
  of that transfer). `Engine` says that the channel is triggered, working or reporting, one at a time, and how many
  triggers are left; of a single set that chains itself, that its last trigger finds an empty set (`Endless`). Of a preloaded channel only some fields are written by a call, so that what it
  describes comes from `Preset`: every set but the channel's own and the last one that is used is as
  `preload_psets` left it, during the call too. That a handle leaves the others alone is `Granted` and the last
  part of `TypeOK`: no set belongs to two.
* `LinksAreOwn` follows without another invariant: the sets that `WillRun` collects link by link are, by induction over the
  links, among those that `Progress` speaks of, and the last of these links to nothing or is not followed.

Only model-checked: the fairness in `ImplementsService` of `Memif` and of `MultiChan`, everything about
liveness and fairness (`LockFree`, `SleeperWoken`, `ReportedUnlessBug`, `WaitReturns`: not expressible to the prover's
backends).
`TypeOK` of `Memif` and `PageMig` is proved (`Typing`, `TypeCorrect`) and in no run.

## 5. Not modelled

* `migrate-ks2.c` (5082 lines, kept twice, identical): an older copy of the driver for the ARM board, whose
  protocol is that of `MIG_MOVE_SINGLE` in `migrate-x86.c`. `migif.c`, `l2if.c`, `test/kernel-driver`: drivers that
  only exercise the interface.
* In `migrate-x86.c` and `multi-chan.c`: code copied verbatim from the Linux memory management
  (`migrate_page_*`, `try_to_unmap_*`, `rmap` walks, the page table accessors), of which the models use what it
  promises; the `noremap` variants that are disabled with `#if 0`, commented out or never called, and the prefault code the build switches off; measurement code. All functions
  that `multi-chan.c` shares with `migrate-x86.c` are modelled where they stand in the latter.
* Board support: `evmTCI6636K2HSample.c` (configuration tables), `emif.c`, `emif.h` (register
  layout), `cmem.c`, `clearcache.c`. Logging and measurement: `log.c`, `measure.c`. The test programs are modelled as far
  as they use the library; `matrix.numa.c`, `word.c`, `stream.c` compute.
* `MIG_INIT_REGION` while the region is in use: nothing protects it, and every caller is alone.
* Time: how long the worker sleeps for a transfer, the timeout of `poll`.
* Weak memory: shared words are sequentially consistent in the models. The code relies on x86 and on the locked
  instructions between its plain accesses.

The mapped lines are a small share of the implementation for these reasons: the two copies of the ARM driver,
the copied kernel code in two x86 drivers, and tables and register layouts make up most of the files.

## 6. Plan

Done: all modules of section 2. What would add most:

1. `MmAccounted` with a program that unmaps pages, which needs a decision what the
   driver should do then: today the chain stops without a callback.
2. `Reserve` from what the program may hold: a bound on the requests of a program, which the library does not keep.
