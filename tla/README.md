# TLA+ models of the passthrough logging filesystem

The program under `src/fuse` is a FUSE passthrough filesystem. It mirrors a
backing directory and writes one fixed-width access-log record per request to
standard output. Its parts and how they interact:

- **Node table** (`FileSystem::nodes`, `findChild`, `HandleCreation`,
  `ForgetMulti`). This maps the backing directory's `st_ino` to a `Node` that
  holds an `O_PATH` descriptor and the kernel's lookup count.
  - The worker threads of `fuse_session_loop_mt` insert, reference and erase
    nodes.
  - They do so under `createMutex` (held across the syscalls of creating
    handlers) and the shared/exclusive `nodesMutex`.
- **File handlers** (`file.cpp`). These open, read, write and release files.
  Each builds a `LogEntry` and writes it after replying to the kernel.
- **Log record builder** (`LogEntry.cpp`). It keeps these maps:
  - logical file handles (`Fhs`, `CurFh`), keyed by the descriptor number;
  - logical inode IDs (`Inodes`, `CurInode`, `InformNewNode`), keyed by the
    Node's address;
  - the clock offset (`GetRtMonDiff`, `GetRTime`).
- **Log writer** (`FileSystem::writeLog`). This is an unlocked loop of
  `write()` calls to standard output.
- **Poll multiplexer** (`FileSystem::setupPollPipe`, `Fs.poll`,
  `killPollThread`).
  - A dedicated thread `poll()`s a pipe and the descriptors that `Poll`
    handlers register through that pipe.
  - It notifies and destroys each poll handle when its event arrives.
- **Metadata handlers** (`node.cpp`, `link.cpp`). These cover getattr/xattr
  calls and readlink.
- **BPF access tracer** (`src/bpf/testdir/bpf.cpp`). This is a separate
  tool that logs the same kind of events from kernel probes.
  - kprobe/kretprobe pairs on `do_filp_open`, `vfs_open`, `filp_close`,
    `vfs_unlink` and the read/write functions share BPF hash maps.
    `opened` maps a `struct file*` to a handle uid, and `inodes` maps `i_ino`
    to an inode uid and an open-handle count.
  - `save` and `save_delete` hold, per thread id, the record of the call in
    progress between its entry and return probes.

## Modules

| module | models | state ↔ code |
|---|---|---|
| `NodeTable` | node table and the directory/file handlers that change it | `dir` = backing directory, `fdtab` = the process's descriptor table (number to object; `openat` takes the lowest free number, `close` frees a number whoever holds it), `nodes` = `FileSystem::nodes` (fd number, lookup), `kref` = the entry references the kernel holds, `kfiles` = the file handles (`fi->fh` numbers) it holds, `createOwner` = `createMutex`, `th` = each worker's locals and program counter. One action per step between syscalls / critical sections: `LookupStat/Find/Open/Insert/Drop`, `Mknod*`, `Mkdir`, `Symlink`, `Create*`, `Unlink`, `Rmdir`, `Rename`, `Link`, `Open`, `Release`, `Forget`/`ForgetErase`, `Destroy`, and `Ext*` for processes outside the mount (enabled by `ExternalWriters`). `emplace` with `piecewise_construct` builds the `Node` before it looks at the key, so when it loses, `~Node` closes the thread's descriptor inside `Emplace`, and the `*Drop` step is the handler's own `if (dropFd) ::close(fd)` after the lock: a second close of the same number. `MakeFile` is `mknodat`; `HandleOpen` is `HandleCreation`'s `openat` + `fstat`, a separate step, so a rename outside the mount can land between them. |
| `FileHandles` | `Open`/`Read`/`Write`/`Release` with `LogEntry::start`/`end` | `Fhs`/`CurFh` = the handle map; `th` = the worker between the reply and `writeLog`; `log` = the records written. Descriptor numbers come from the small set `Fds` and are reused after release, as the kernel does. |
| `PollMux` | the poll thread | `pipe` = bounded message queue, `phs` = the handle vector, `fds` = the `pollfd` vector as buffer + size (so the `resize` bug is visible), `pt` = the thread's state. `Scan` is a `RECURSIVE` operator for the swap-and-pop loop (lines 233–250), taken as one step because the thread holds no lock that others observe. |
| `InodeIds` | logical inode IDs | `Inodes`/`CurInode`, each file's Node address (`node`), the records' IDs (`log`). Addresses are model values; a freed one may be handed out again. `Lookup` is `findChild`'s insert with `InformNewNode(res, false)`; `Create` is `HandleCreation`'s insert with `InformNewNode(node, true)`, its record, and the rollback erase when the second `openat` fails. `ForgetMulti` is not a step: its decrement never lets it erase a Node. |
| `Clock` | `GetRtMonDiff`, `GetRTime` | the realtime and monotonic readings are the (constant) state; the properties compare the operators with a normalising reference `Normal`. |
| `LogWriter` | `writeLog` | each thread's `written`/`tries`, the log as pieces tagged by record, and the set of records that printed a message to standard error. |
| `ThreadBuffer` | Opendir, Readdir, Readdirplus, Releasedir, Readlink and the Buffer resize of Getxattr/Listxattr | `buf` = the worker's `thread_local Fs.Buffer` size, carried from one request to the next; `dir` = the directory in readdir order as record lengths (`.`/`..` are the entries `Dots`, of length `DotLen`); `ls` = the kernel's listing (offset, entries received, how it ended); `lookup`/`kref` = findChild's references per entry and those the kernel received. The readdir loop is the `RECURSIVE` operator `Fill`, line for line; Readlink's doubling loop is `Retry`. |
| `DirListing` | what a directory listing promises (abstract) | `entries` = the named entries in order, `mode`, `got` = what the kernel received, `end`. `Deliver` appends the next one or more entries, `Eof` is possible only when `got = entries`, and `Fail` ends the listing. |
| `PollFiles` | `PollMux` composed with the files the kernel holds open | an `INSTANCE` of `PollMux`, plus `fdtab` = the process's descriptor table (numbers to files, with the lowest free number given to `openat`), `open` = each kernel file's `fi->fh` and file, `fdOf` = the `pfd.fd` each `Poll` registered, and `io` = the last I/O (the file it was for and the file it reached). Each `PollMux` step (`PollStep`) closes in `fdtab` the descriptors of the handles it closed. `Open`, `ReadWrite`, `Release` and `PollFile` are the handlers of `file.cpp`. No step happens after the poll thread has aborted the process. |
| `BpfProbes` | the BPF tracer | `opened`, `inodes`, `save`, `save_delete`, `gHandle`/`gInode` (the global uid arrays) and `events` (the ring buffer) are the BPF maps. `nlink`, `file` (each `struct file`: inode, descriptors, mmaps) and `th` (each thread's call in progress) are the kernel. Each probe is one action named after its function: a probe runs to completion on its CPU, and other threads' probes interleave between an entry and its return. The kernel's part of each call is folded into the probe steps. `Dup`, `Mmap`/`Munmap`, `Link` and `RenameOver` are kernel steps no probe sees. Ghost fields give each event the call that submitted it, the open it is about and the inode generation. |
| `Xattr` | the reply logic of `Getxattr`/`Listxattr` | one call's inputs: handler, descriptor kind (`O_PATH` from `findChild`, read/write from `Create`), attribute length, caller's size. |

Each `MC_*` module supplies model values and symmetry sets for one module.

## Runs

Passing runs (all finish in seconds to a couple of minutes):

- **nodetable** (`MC_NodeTable.cfg`): 2 threads, 2 names, 3 inode numbers,
  descriptor numbers 3..6, 4 requests, and processes outside the mount that
  unlink, rename and create names between the handlers' syscalls.
  - Checks `NoDanglingRef` (no kernel reference to an erased node).
  - Checks `NodesInUseLive` (no thread uses an erased node).
  - In the code `ForgetMulti` never erases a node (see
    `forget_never_decrements`), so the erases these two properties guard are
    Create's rollback. The mutant `ForgetSubtracts` gives `ForgetMulti` the
    decrement the spec intends, and TLC then finds a forget erasing a node
    another thread still uses.
- **filehandles** (`MC_FileHandles.cfg`): 2 threads, descriptors {3, 4}, 5
  requests.
  - `LogHandleIdentifiesFile`: every record names the logical handle of the
    file it is about, even though descriptor numbers are reused.
  - `ReleasedFilesCloseLogged` (liveness): every released file eventually gets
    its close record.
- **pollmux** (`MC_PollMux.cfg`): 3 handles and a pipe of capacity 2.
  `HandlesReleasedOnce`: no handle is notified or destroyed twice, across the
  event, poll-error and shutdown paths.
- **bpfprobes** (`MC_BpfProbes.cfg`): 2 threads (one passes `CheckToLog`),
  2 inode numbers, 2 `struct file` addresses, 3 calls.
  - `EventsMatchCalls`: every event is of the call that submitted it, and no
    call submits two, even though `do_filp_open` and `vfs_open` nest on one
    thread id (`vfs_open`'s `save.update` replaces the outer record and its
    return consumes it).
- **logwriter** (`MC_LogWriter.cfg`): 2 threads, records of 3 pieces, 4
  records. `LogWholeUnlessWarned`: if no call printed a warning, the log is a
  sequence of whole records.
- **threadbuffer** (`MC_ThreadBuffer.cfg`): 3 named entries of lengths 1..3, requests of 4, 7 requests.
  - `ListingRefined` (refinement): the kernel's listings implement `DirListing` under the mapping `entries <- Named`, `got <- ls.got`. Each reply is the next entries in order, at least one, without `.` and `..`, and an empty reply comes only after the last entry. The loop leaves an entry that fills the buffer exactly out of the reply; the kernel's resumption at the last `d_off` it received lists it again.
  - `KernelRefsCounted`: the kernel never holds a readdirplus reference that `findChild` did not count, including when `findChild` fails midway.
  - `ReadlinkWhole`: Readlink replies the whole target whatever Buffer size the worker's previous Readdir, Getxattr (size 0 empties it) or Readlink left.

Violation runs. Each checks one property that the spec or the code's intent
states, and TLC shows a counterexample:

- **lookup_double_close** (`MC_NodeTable_close.cfg`, `FdsAccounted`): two
  lookups of one name both miss and both open it. The loser's `emplace`
  builds a `Node` and destroys it, and `~Node` closes the descriptor
  (FileSystem.cpp:151); `findChild` then closes the same number again
  (FileSystem.cpp:142). In TLC's trace an `Open` in between got that number as
  a kernel file handle, which the second close takes away: later Reads and
  Writes use a closed number, or another file once it is reused.
  `HandleCreation` does the same (directory.cpp:59). The same stray close can
  close a node's descriptor, so that its object dies and its inode number is
  reused under the stale node; this is why no passing run checks
  `LookupCoversKernelRefs`.
- **forget_never_decrements**: `lookup -= nlookup == 0` (node.cpp:19) never
  lowers the counter, so nodes and descriptors are never freed.
- **poll_closes_fh** (`MC_PollFiles.cfg`): `Poll` registers `fi->fh`, and
  the poll thread `close()`s it when the event arrives (FileSystem.cpp:239).
  The file stays open for the kernel. `openat` then gives the number to the
  next open file, and the first file's Read, Write or Release reaches the
  second file (`NoCrossFileIO`).
- **poll_abort**: `fds.resize(phs.size() - 1)` (FileSystem.cpp:243) after
  removing the last handle is `resize(SIZE_MAX)`, which throws
  `std::length_error` in a detached thread and terminates the process.
- **readdirplus_leak**: Readdirplus takes a lookup reference in `findChild`
  before it knows the entry fits. An entry that does not fit, or fills the
  buffer exactly, is not replied, so the kernel never forgets that reference
  (directory.cpp:228).
- **bpf_inode_uid** (`MC_BpfProbes_inode.cfg`): the tracer deletes an
  `inodes` entry only in `vfs_unlink`'s return or in a last `filp_close` that
  saw `i_nlink == 0`. A rename over the file's last name leaves the entry, and
  a new inode given the same number inherits the old uid
  (`InodeUidIdentifiesInode`). An unlink between a close's entry and return
  has the same effect.

Supplementary configurations that are not in the run list (the project keeps
twelve runs) show further counterexamples:

- `MC_Clock_carry.cfg`: `GetRTime` carries only when the nanoseconds are
  `> 10^9`; at exactly 10^9 the millisecond field reads 1000, one digit too
  wide.
- `MC_NodeTable_create.cfg`: after Create's failing second open, the reply
  gives the kernel an uncounted reference (`LookupCoversKernelRefs`).
- `MC_NodeTable_stale.cfg`: a rename between `fstatat` and `openat` in
  `findChild` publishes a node whose descriptor is another object's.
- `MC_PollMux_pollset.cfg`: with two handles, one removal drops the pipe's
  `pollfd`.
- `MC_InodeIds_reuse.cfg`: `Inodes` is keyed by Node addresses and never
  pruned. Create's rollback (directory.cpp:285) frees a Node it registered,
  and a new Node at that address inherits the rolled-back file's ID.
- `MC_Xattr_errors.cfg`: `res > size` compares `ssize_t` with `size_t`, so
  errors are replied as empty values and size-0 queries as length 0.
- `MC_BpfProbes_handle.cfg`: a close whose flush fails keeps the `opened`
  entry of a freed `struct file`, and the next open at that address is logged
  with the old handle uid (`HandleUidIdentifiesOpen`).
- `MC_FileHandles_order.cfg`: Open, Read and Write reply before they log, so
  another thread's Read record for a new handle can precede its open record
  (spec §5 says one handle's events are in program order).

`PROJECT.json` lists every run, the mutant that shows each passing property
can fail, the source lines each definition models, and the hazards.

## Bounds

- **Two threads** are enough for every race these handlers have: each race
  is between two requests.
- **Names, inode numbers and descriptor numbers.** Two names and three inode
  numbers let a name be renamed onto another, an object be linked twice, and
  a number be reused after its object dies. In `NodeTable`, four descriptor
  numbers let two threads hold one each while nodes and a file handle hold
  others, so a closed number is handed out again; `EMFILE` is reachable too.
  Four requests are the most the run with outside writers finishes in a
  minute. They are enough for a lookup race plus an open, and for a rename
  between `mknodat` and `HandleCreation`'s `openat` followed by the drop.
  Elsewhere, two descriptor numbers let a number be reused while another
  file is open.
- **Requests.** `MaxRequests` caps the kernel's requests; the cap is named in
  every guard that uses it.
- **Poll multiplexer.** Three handles with a pipe of capacity 2 reach a full
  pipe, removal from the middle and back of the vectors, and shutdown with
  handles pending.
- **Listings.** Entry lengths 1..3 against a request of 4 reach an entry
  that does not fit, one that fits exactly, and one that fits with room. Every
  entry is shorter than the request, as a real entry is shorter than the page
  the kernel asks for. With three entries a listing needs up to four calls.
- **Poll and files.** `PollFiles` uses two handles, two kernel files, two
  backing files and the descriptor numbers {3, 4}. This is the smallest
  instance in which a closed number is handed to another file. With one
  handle, the thread aborts on its first removal.
- **BPF tracer.** Three calls are enough for each of the following:
  - an open, a close and a second open that reuses the inode number or the
    `struct file` address;
  - one thread's call nested in, or interleaved with, another's.

  The kernel's steps (dup, mmap, link, rename) are not counted against the
  bound. Four calls take over 5 minutes.
- **Clock and xattr.** The Clock nanoseconds include 0, 10^9−1 and the
  values whose sums hit 10^9 exactly. Xattr lengths and sizes 0..8 cover
  equality, above and below.

## Fairness

Only `FileHandles` has a liveness property. It assumes weak fairness of a
started worker's later steps (`WriteRecord`, `ReleaseRecord`): a worker
thread that has replied runs on to its `writeLog`, and nothing it waits for
can block. The kernel's requests get no fairness, because the kernel may stop
sending them. The other modules check safety only.

## Refinement

`ThreadBuffer` is shown to implement the abstract `DirListing`.
`MC_ThreadBuffer.cfg` checks `Listing!Spec` as a PROPERTY, through
`INSTANCE DirListing WITH entries <- Named, mode <- ls.mode, got <- ls.got,
end <- ls.end`. Readdir steps map to `Deliver`, `Eof` or `Fail`, and
Opendir and Releasedir map to `Open` and `Close`. Readlink and Getxattr are
stuttering steps. The mutant `ReaddirLoopPastOff` resumes one entry past the
kernel's offset. It skips an entry, so no `Deliver` step matches it.

## Assumptions

- **The kernel's directory lock.** The kernel holds the parent directory's
  lock for lookup, create, unlink and rename, so those handlers on the root
  never overlap. The kernel serialises them because `fs.cpp` clears
  `FUSE_CAP_PARALLEL_DIROPS` in Init. The `Ext*` actions bypass that lock:
  outside processes change the directory at any time.
- **Unreachable Serve branches.** `PollMux.Serve` keeps the code's EOF
  teardown and the failed-`read()` branch. In the code the write end is closed
  only by `killPollThread` after the kill message, so the thread leaves before
  it can read EOF. A failed `read` on the thread's own pipe cannot happen
  either. These branches therefore never fire.

## Not modelled

- **`fstat` failing in `HandleCreation`.** When `openat` succeeds and `fstat`
  fails, the descriptor is never closed (directory.cpp:34). `fstat` on a
  descriptor just opened fails only with `EOVERFLOW` or `ENOMEM`, so
  `HandleOpen` treats `openat` and `fstat` as one outcome and does not inject
  that failure.

- **Opendir errors.** Opendir's `openat`/`fdopendir` failure only replies an
  error and starts no listing.
- **Listings of a directory changing meanwhile.** POSIX leaves `readdir`'s
  results unspecified then. Readdirplus's `findChild` failure is a
  nondeterministic choice per entry.
- **`PollFiles`'s `revents` for a reused number.** The revents come from
  `PollMux`, which gives `POLLNVAL` for a closed handle whatever the number
  refers to now.
- **The log records of the file handlers in `PollFiles`.** `FileHandles`
  covers those.
- **The writers that block on a full poll pipe**, stated as a liveness
  property.
- **Pass-through handlers that keep no state** (`Getattr`, `Setattr`, `Statfs`,
  `Fsync`, `Lseek`, ...).
- **`getBuf`'s formatting.** Only the fields the properties compare are kept.
- **Parts of the BPF tracer.**
  - The `do_file_open_root` probe pair, whose bodies are `do_filp_open`'s.
  - The path records of `OutputFilePaths`.
  - The fork/exit tracepoints that maintain `log_pids`. `CheckToLog` is a
    fixed set of threads.
  - Missed kretprobes (maxactive exhausted).
  - Lost updates of the plain `++` on the uid arrays. Each probe is atomic in
    the model.

  Each of these is listed as a hazard. `cgroup_informer.cpp` writes one
  record per fork and keeps no state, so there is nothing in it to model.
- **A refinement of `FileHandles`** by a composed handler model.
