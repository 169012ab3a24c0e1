----------------------------- MODULE Files -----------------------------
(***************************************************************************)
(* The HAL's descriptors: the pool alt_fd_list with its high mark          *)
(* alt_max_fd, the lists of devices and file systems, open and close, the  *)
(* lock for exclusive access, the redirection of the three streams at      *)
(* boot, and the calls a descriptor passes to its driver.  Threads         *)
(* interleave; alt_get_fd and alt_fd_lock are single steps because they    *)
(* hold alt_fd_list_lock, while open tests for a lock without it, one      *)
(* descriptor at a time.  A build with direct drivers has no pool.  Flags  *)
(* are the set of the bits that are on.  Callers use descriptors they      *)
(* hold, or -1.                                                            *)
(***************************************************************************)
EXTENDS Integers, FiniteSets, SequencesExt

CONSTANTS Threads, MainThread,  \* the callers; MainThread is the one that boots
          MaxFd,          \* ALT_MAX_FD
          Null, None,     \* alt_dev_null; no device
          Devices, FileSystems,
          NameOf,         \* the name each is registered under, << >> for none
          Caps,           \* the callbacks each provides
          Names,          \* what open is asked for
          Uses            \* the uses made of the descriptors, records of
                          \* direct:    ALT_USE_DIRECT_DRIVERS
                          \* threads:   the callers at work
                          \* streams:   the names stdin, stdout and stderr are given
                          \* args:      the flags open is given
                          \* calls:     the calls made on descriptors
                          \* most:      open is called while fewer are held
                          \* pinned:    a descriptor above all others stays open
                          \* closesStd: the program may close 0, 1 and 2

MaxFdAssumption   == MaxFd \in Nat /\ MaxFd > 3
MainAssumption    == MainThread \in Threads
DevicesAssumption == /\ IsFiniteSet(Devices)
                     /\ Null \notin Devices \cup FileSystems
                     /\ None \notin Devices \cup FileSystems \cup {Null}
                     /\ Devices \cap FileSystems = {}

VARIABLES
  use,                \* the use made of the descriptors; it never changes
  boot,               \* -1 at first, then the streams redirected, 3 of them
  devList, fsList,    \* alt_dev_list, alt_fs_list
  dev, flags, maxFd,  \* alt_fd_list, alt_max_fd
  at, idx, want, pos, \* each caller in open: where, descriptor, what, scan
  held,               \* descriptors the program holds
  users,              \* opens less closes each driver has seen
  last                \* the call that returned last, and what it returned

lists == <<devList, fsList>>
pool  == <<dev, flags, maxFd>>
open  == <<at, idx, want, pos>>
vars  == <<use, boot, lists, pool, open, held, users, last>>

Fd      == 0 .. MaxFd - 1
All     == Devices \cup FileSystems \cup {Null}
Order   == <<1, 0, 2>>  \* stdout, stdin, stderr
Mask    == {"EXCL", "DEV"}
Setting == {"APPEND", "NONBLOCK"}
Bits    == {"WRONLY", "RDWR"} \cup Setting \cup Mask
Error   == {"EACCES", "EMFILE", "ENODEV", "ENOSYS", "EIO", "EBADFD",
            "ENOTTY", "ENOTSUP"}

UsesAssumption ==
  \A u \in Uses : u.threads \subseteq Threads /\ u.args \subseteq SUBSET Bits

\* The program is about to boot, or, to look at locks, it has booted with
\* its streams at one device and has a file open in the last descriptor,
\* which it will keep, all below it closed again.
Init ==
  /\ use \in Uses
  /\ at = [t \in Threads |-> "idle"] /\ idx = [t \in Threads |-> -1]
  /\ want = [t \in Threads |-> {}] /\ pos = [t \in Threads |-> 0]
  /\ last = [call |-> "none", fd |-> -1, value |-> "ok"]
  /\ IF use.pinned
     THEN \E d \in Devices, s \in FileSystems :
            /\ boot = 3 /\ fsList = <<s>>
            /\ devList = SetToSeq(Devices) \o <<Null>>
            /\ dev = [f \in Fd |-> IF f < 3 THEN d ELSE IF f = MaxFd - 1 THEN s ELSE None]
            /\ flags = [f \in Fd |-> IF f = 0 THEN {"DEV"}
                                     ELSE IF f < 3 THEN {"WRONLY", "DEV"} ELSE {}]
            /\ maxFd = MaxFd - 1 /\ held = {0, 1, 2, MaxFd - 1}
            /\ users = [e \in All |-> IF e = d THEN 3 ELSE IF e = s THEN 1 ELSE 0]
     ELSE /\ boot = -1 /\ devList = <<Null>> /\ fsList = << >>
          /\ dev = [f \in Fd |-> IF f < 3 THEN Null ELSE None]
          /\ flags = [f \in Fd |-> {}] /\ maxFd = -1 /\ held = {0, 1, 2}
          /\ users = [d \in All |-> 0]

(***************************************************************************)
(* Registration, and the search for the owner of a name.                   *)
(***************************************************************************)
DevReg(d) ==
  /\ boot = -1 /\ d \notin Range(devList)
  /\ NameOf[d] # << >>
  /\ devList' = <<d>> \o devList
  /\ UNCHANGED <<use, boot, fsList, pool, open, held, users, last>>

FsReg(s) ==
  /\ boot = -1 /\ s \notin Range(fsList)
  /\ NameOf[s] # << >>
  /\ fsList' = <<s>> \o fsList
  /\ UNCHANGED <<use, boot, devList, pool, open, held, users, last>>

Booted ==
  /\ boot = -1 /\ boot' = IF use.direct THEN 3 ELSE 0
  /\ UNCHANGED <<use, lists, pool, open, held, users, last>>

First(list, Match(_)) ==
  LET i == SelectInSeq(list, Match) IN IF i = 0 THEN None ELSE list[i]

FindDev(name)  == First(devList, LAMBDA d : NameOf[d] = name)

\* A file system owns the names below its own.
FindFile(name) == First(fsList, LAMBDA s : IsPrefix(NameOf[s], name))

Owner(name) == IF FindDev(name) # None THEN FindDev(name) ELSE FindFile(name)

(***************************************************************************)
(* open().                                                                 *)
(***************************************************************************)
Returns(call, f, value) == last' = [call |-> call, fd |-> f, value |-> value]

\* An open that ends: its caller is alt_open_fd while the system boots.
Ends(t, f, value) ==
  /\ at' = [at EXCEPT ![t] = IF boot = 3 THEN "idle" ELSE "move"]
  /\ idx' = [idx EXCEPT ![t] = IF value = "ok" /\ boot # 3 THEN f ELSE -1]
  /\ want' = [want EXCEPT ![t] = {}] /\ pos' = [pos EXCEPT ![t] = 0]
  /\ held' = IF value = "ok" /\ boot = 3 THEN held \cup {f} ELSE held
  /\ Returns("open", f, value)

Goes(t, place) == at' = [at EXCEPT ![t] = place]

\* alt_get_fd takes the first free descriptor, and raises the mark to it.
GetFd(d) ==
  LET f == CHOOSE f \in Fd : dev[f] = None /\ \A g \in 0 .. f - 1 : dev[g] # None
  IN  /\ dev' = [dev EXCEPT ![f] = d]
      /\ maxFd' = IF f > maxFd THEN f ELSE maxFd

Full == \A f \in Fd : dev[f] # None

Begin(t, name, args) ==
  /\ at[t] = "idle" /\ ~use.direct
  /\ \/ /\ Owner(name) = None
        /\ Ends(t, -1, "ENODEV") /\ UNCHANGED pool
     \/ /\ Owner(name) # None /\ Full
        /\ Ends(t, -1, "EMFILE") /\ UNCHANGED pool
     \/ /\ Owner(name) # None /\ ~Full
        /\ GetFd(Owner(name)) /\ UNCHANGED flags
        /\ idx' = [idx EXCEPT ![t] =
             CHOOSE f \in Fd : dev[f] = None /\ \A g \in 0 .. f - 1 : dev[g] # None]
        /\ want' = [want EXCEPT ![t] = args]
        /\ Goes(t, "flags") /\ UNCHANGED <<pos, held, last>>
  /\ UNCHANGED <<use, boot, lists, users>>

Open(t, name, args) ==
  /\ boot = 3 /\ args \in use.args /\ Cardinality(held) < use.most
  /\ Begin(t, name, args)

\* alt_open_fd opens the next stream's device, to write or to read.
Redirect ==
  /\ boot \in 0 .. 2
  /\ LET s == Order[boot + 1]
     IN  Begin(MainThread, use.streams[s], IF s = 0 THEN {} ELSE {"WRONLY"})

DirectOpen(t) ==
  /\ use.direct /\ boot = 3
  /\ Returns("open", -1, "ENOSYS")
  /\ UNCHANGED <<use, boot, lists, pool, open, held, users>>

SetFlags(t) ==
  /\ at[t] = "flags"
  /\ flags' = [flags EXCEPT ![idx[t]] = want[t] \ Mask]
  /\ Goes(t, IF dev[idx[t]] \in FileSystems THEN "callback" ELSE "mark")
  /\ UNCHANGED <<use, boot, lists, dev, maxFd, idx, want, pos, held, users, last>>

Mark(t) ==
  /\ at[t] = "mark"
  /\ flags' = [flags EXCEPT ![idx[t]] = @ \cup {"DEV"}]
  /\ Goes(t, "scan") /\ pos' = [pos EXCEPT ![t] = 0]
  /\ UNCHANGED <<use, boot, lists, dev, maxFd, idx, want, held, users, last>>

Release(f) ==
  /\ flags' = IF f > 2 THEN [flags EXCEPT ![f] = {}] ELSE flags
  /\ dev'   = IF f > 2 THEN [dev EXCEPT ![f] = None] ELSE dev
  /\ UNCHANGED maxFd

\* The test for a lock is made before the descriptor is taken, and not again.
BugScan(t) ==
  /\ at[t] = "scan" /\ pos[t] <= maxFd
  /\ pos' = [pos EXCEPT ![t] = maxFd + 1]
  /\ UNCHANGED <<use, boot, lists, pool, at, idx, want, held, users, last>>

\* alt_file_locked looks at one descriptor.
Scan(t) ==
  /\ at[t] = "scan" /\ pos[t] <= maxFd
  /\ \/ /\ pos[t] # idx[t] /\ dev[pos[t]] = dev[idx[t]] /\ "EXCL" \in flags[pos[t]]
        /\ Release(idx[t]) /\ Ends(t, -1, "EACCES")
     \/ /\ ~(pos[t] # idx[t] /\ dev[pos[t]] = dev[idx[t]] /\ "EXCL" \in flags[pos[t]])
        /\ pos' = [pos EXCEPT ![t] = @ + 1]
        /\ UNCHANGED <<pool, at, idx, want, held, last>>
  /\ UNCHANGED <<use, boot, lists, users>>

NotLocked(t) ==
  /\ at[t] = "scan" /\ pos[t] > maxFd
  /\ Goes(t, "callback")
  /\ UNCHANGED <<use, boot, lists, pool, idx, want, pos, held, users, last>>

\* The descriptor of an open that failed is not given back.
BugCallback(t) ==
  /\ at[t] = "callback"
  /\ LET f == idx[t]  d == dev[idx[t]]
     IN  \/ /\ users' = [users EXCEPT ![d] = @ + 1] /\ Ends(t, f, "ok")
         \/ /\ "open" \in Caps[d] /\ Ends(t, -1, "EIO") /\ UNCHANGED users
  /\ UNCHANGED <<use, boot, lists, pool>>

\* The driver's open(), if it has one, may fail.
Callback(t) ==
  /\ at[t] = "callback"
  /\ LET f == idx[t]  d == dev[idx[t]]
     IN  \/ /\ users' = [users EXCEPT ![d] = @ + 1]
            /\ Ends(t, f, "ok") /\ UNCHANGED pool
         \/ /\ "open" \in Caps[d]
            /\ Release(f) /\ Ends(t, -1, "EIO") /\ UNCHANGED users
  /\ UNCHANGED <<use, boot, lists>>

\* alt_open_fd copies what was opened over the stream's descriptor.
Move ==
  /\ at[MainThread] = "move" /\ boot' = boot + 1
  /\ LET f == idx[MainThread]  s == Order[boot + 1]
     IN  IF f = -1 THEN UNCHANGED <<dev, flags>>
         ELSE /\ dev' = [dev EXCEPT ![s] = dev[f], ![f] = None]
              /\ flags' = [flags EXCEPT ![s] = flags[f], ![f] = {}]
  /\ Goes(MainThread, "idle") /\ idx' = [idx EXCEPT ![MainThread] = -1]
  /\ UNCHANGED <<use, lists, maxFd, want, pos, held, users, last>>

(***************************************************************************)
(* close(), and ioctl() with TIOCEXCL and TIOCNXCL.                        *)
(***************************************************************************)
Free(t) == boot = 3 /\ at[t] = "idle"

Closable(f) == (f > 2 \/ use.closesStd) /\ ~(use.pinned /\ f = MaxFd - 1)

Close(t, f) ==
  /\ Free(t) /\ ~use.direct /\ f \in held /\ Closable(f)
  /\ \E failed \in IF "close" \in Caps[dev[f]] THEN BOOLEAN ELSE {FALSE} :
       Returns("close", f, IF failed THEN "EIO" ELSE "ok")
  /\ Release(f)
  /\ held' = held \ {f} /\ users' = [users EXCEPT ![dev[f]] = @ - 1]
  /\ UNCHANGED <<use, boot, lists, open>>

\* alt_fd_lock looks at the descriptors below the mark.
Lock(t, f) ==
  /\ Free(t) /\ ~use.direct /\ f \in held /\ "DEV" \in flags[f]
  /\ LET others == {g \in Fd : g < maxFd /\ g # f /\ dev[g] = dev[f]}
     IN  IF others = {}
         THEN flags' = [flags EXCEPT ![f] = @ \cup {"EXCL"}]
              /\ Returns("lock", f, "ok")
         ELSE UNCHANGED flags /\ Returns("lock", f, "EACCES")
  /\ UNCHANGED <<use, boot, lists, dev, maxFd, open, held, users>>

Unlock(t, f) ==
  /\ Free(t) /\ ~use.direct /\ f \in held /\ "DEV" \in flags[f]
  /\ flags' = [flags EXCEPT ![f] = @ \ {"EXCL"}]
  /\ Returns("unlock", f, "ok")
  /\ UNCHANGED <<use, boot, lists, dev, maxFd, open, held, users>>

(***************************************************************************)
(* The calls that leave the pool alone, and what they may return: "driver" *)
(* stands for what the driver returns.                                     *)
(***************************************************************************)
\* F_SETFL changes O_APPEND and O_NONBLOCK.
SetFl(t, f, new) ==
  /\ Free(t) /\ ~use.direct /\ f \in held /\ "setfl" \in use.calls
  /\ flags' = [flags EXCEPT ![f] = (@ \ Setting) \cup (new \cap Setting)]
  /\ Returns("setfl", f, "ok")
  /\ UNCHANGED <<use, boot, lists, dev, maxFd, open, held, users>>

Vector(call, f, otherwise) == {IF call \in Caps[dev[f]] THEN "driver" ELSE otherwise}

Read(f) ==
  IF "WRONLY" \in flags[f] THEN {"EACCES"} ELSE Vector("read", f, "EACCES")

Write(f) ==
  IF flags[f] \cap {"WRONLY", "RDWR"} = {} THEN {"EACCES"}
  ELSE Vector("write", f, "EACCES")

Lseek(f) == Vector("lseek", f, "ENOTSUP")
Ioctl(f) == Vector("ioctl", f, "ENOTTY")

\* Any other mode is what the driver's fstat puts there, and it may fail.
Fstat(f) == IF "fstat" \in Caps[dev[f]] THEN {"_IFCHR", "other", "EIO"} ELSE {"_IFCHR"}

\* isatty does not look at what fstat returned: after a failure the mode
\* is what the stack held.
Isatty(f) == IF "fstat" \in Caps[dev[f]] THEN {"yes", "no"} ELSE {"yes"}

Passed == {"read", "write", "lseek", "ioctl", "fstat", "isatty"}

Answers(f) ==
  [read |-> Read(f), write |-> Write(f), lseek |-> Lseek(f), ioctl |-> Ioctl(f),
   fstat |-> Fstat(f), isatty |-> Isatty(f)]

\* With direct drivers the three streams go straight to their drivers.
DirectAnswers(f) ==
  [read   |-> {IF f = 0 THEN "driver" ELSE "EBADFD"},
   write  |-> {IF f \in {1, 2} THEN "driver" ELSE "EBADFD"},
   lseek  |-> {"ENOSYS"},
   ioctl  |-> {IF f \in 0 .. 2 THEN "driver" ELSE "EBADFD"},
   fstat  |-> {IF f \in 0 .. 2 THEN "_IFCHR" ELSE "EBADFD"},
   isatty |-> {IF f \in 0 .. 2 THEN "yes" ELSE "no"}]

Call(t, call, f) ==
  /\ Free(t) /\ f \in held \cup {-1} /\ call \in use.calls
  /\ \E value \in IF use.direct THEN DirectAnswers(f)[call]
                  ELSE IF f < 0 THEN {IF call = "isatty" THEN "no" ELSE "EBADFD"}
                  ELSE Answers(f)[call] :
       Returns(call, f, value)
  /\ UNCHANGED <<use, boot, lists, pool, open, held, users>>

Next ==
  \/ \E d \in Devices : DevReg(d)
  \/ \E s \in FileSystems : FsReg(s)
  \/ Booted \/ Redirect \/ Move
  \/ \E t \in use.threads :
       \/ \E name \in Names, args \in SUBSET Bits : Open(t, name, args)
       \/ DirectOpen(t) \/ SetFlags(t) \/ Mark(t) \/ Scan(t) \/ NotLocked(t)
       \/ Callback(t)
       \/ \E f \in Fd : Close(t, f) \/ Lock(t, f) \/ Unlock(t, f)
       \/ \E f \in Fd, new \in SUBSET {"NONBLOCK", "RDWR"} : SetFl(t, f, new)
       \/ \E call \in Passed, f \in Fd \cup {-1} : Call(t, call, f)

Spec == Init /\ [][Next]_vars

--------------------------------------------------------------------------
\* The type invariant.
TypeOK ==
  /\ use \in Uses /\ boot \in -1 .. 3
  /\ Range(devList) \subseteq Devices \cup {Null} /\ Range(fsList) \subseteq FileSystems
  /\ dev \in [Fd -> All \cup {None}] /\ flags \in [Fd -> SUBSET Bits]
  /\ maxFd \in -1 .. MaxFd - 1
  /\ at \in [Threads -> {"idle", "flags", "mark", "scan", "callback", "move"}]
  /\ idx \in [Threads -> Fd \cup {-1}] /\ pos \in [Threads -> 0 .. MaxFd]
  /\ held \subseteq Fd /\ users \in [All -> Int]
  /\ last.fd \in Fd \cup {-1}
  /\ last.value \in Error \cup {"ok", "driver", "_IFCHR", "other", "yes", "no"}

\* Descriptors open() has yet to return.
Opening == {idx[t] : t \in {u \in Threads : at[u] # "idle"}}

\* "If there are no other open file descriptors which reference the same
\* device, then alt_fd_lock() will grant the lock.  Further calls to open()
\* for this device will fail until the lock is released" (alt_fd_lock.c:43):
\* while a descriptor of a device is locked, the program holds no other,
\* whatever open, close, lock and unlock of whichever threads came between.
Exclusive ==
  \A f, g \in held :
    "EXCL" \in flags[f] /\ dev[g] = dev[f] => g = f

\* A lock "is unlocked by either calling close() for fd, or by an alternate
\* call to ioctl()" (alt_file.h:104): no descriptor the program has closed,
\* and none whose open() is under way, holds a device locked.
LockIsHeld == \A f \in Fd : "EXCL" \in flags[f] => f \in held

\* Every way open() fails, and every close(), gives its descriptor back:
\* those taken from the pool are those the program holds and those being
\* opened, and none is two callers' at once.
NoLeak ==
  boot = 3 =>
    /\ {f \in Fd : f > 2 /\ dev[f] # None} = {f \in held \cup Opening : f > 2}
    /\ \A t, u \in Threads : idx[t] # -1 /\ at[t] # "idle" /\ at[u] # "idle" /\ t # u
                                 => idx[t] # idx[u] /\ idx[t] \notin held

\* "It indicates the highest file descriptor allocated" (alt_file.h:151):
\* the searches for a lock end at the mark, so no descriptor in use may lie
\* above it.
MarkIsHigh == \A f \in Fd : f > 2 /\ dev[f] # None => f <= maxFd

\* A driver sees one close() for each open(), although the descriptor it
\* was opened with is not the one a stream is closed by: the opens a driver
\* still has are the descriptors that refer to it.
CallbacksPair ==
  \A d \in All \ {Null} :
    users[d] = Cardinality({f \in Fd \ Opening : dev[f] = d})
               + Cardinality({t \in Threads : at[t] = "move" /\ idx[t] # -1
                                              /\ dev[idx[t]] = d})

\* Once the streams are redirected, stdin can be read and stdout and stderr
\* can be written for as long as the program runs, whatever it does to
\* their flags with fcntl() and ioctl(): no call is refused for want of
\* access while the driver has the function.
StreamsUsable ==
  /\ (last.call = "read" /\ last.fd = 0 /\ "read" \in Caps[dev[0]])
       => last.value \in {"driver"}
  /\ (last.call = "write" /\ last.fd \in {1, 2}
        /\ dev[last.fd] # Null /\ "write" \in Caps[dev[last.fd]])
       => last.value \in {"driver"}
  /\ (use.direct /\ last.call = "write" /\ last.fd \in {1, 2}) => last.value = "driver"

\* "At startup stin, stdout & stderr are all directed towards this device so
\* that library calls like printf() will be safe but inefectual"
\* (alt_dev.c:84), and its write "simple discards all data passed to it, and
\* indicates that the data has been successfully transmitted"
\* (alt_dev.c:71): a write to stdout that stayed there succeeds.
NullDiscards ==
  last.call = "write" /\ last.fd \in {1, 2} /\ dev[last.fd] = Null
    => last.value # "EACCES"

(***************************************************************************)
(* The pool as its callers see it: each descriptor's device, and who has a *)
(* device to itself.                                                       *)
(***************************************************************************)
owner  == [f \in Fd |-> IF f \in held /\ boot = 3 THEN dev[f] ELSE None]
locked == {f \in held : "EXCL" \in flags[f]}

Pool == INSTANCE FdPool WITH owner <- owner, locked <- locked, begun <- (boot = 3)

\* open, close and the lock, taken one at a time out of their many steps.
IsPool == Pool!Spec
=============================================================================
