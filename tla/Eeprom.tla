------------------------------- MODULE Eeprom -------------------------------
(***************************************************************************)
(* The i2c eeprom driver (driver/eeprom.c): sysfs reads served from a      *)
(* cache of slices with validity bits and an age, sysfs writes that go to  *)
(* the device page by page.                                                *)
(*                                                                         *)
(* The contents are taken by page, the unit of a write; offsets and counts *)
(* are in pages.  A refresh holds update_lock and a write does not, so the *)
(* steps are the accesses to valid, data and the bus.  jiffies wraps.      *)
(***************************************************************************)
EXTENDS Integers

CONSTANTS Procs, Writers,   \* processes in a call; those that also write
          Admins,           \* those with CAP_SYS_ADMIN
          NSlices,          \* slices of the device (8 in the code)
          Value, Zero,      \* contents of a page; what a hidden page reads as
          Contents,         \* contents of the device at first, and of buffers
          Ranges,           \* offsets and counts of calls
          Erased,           \* 0xff
          Hidden,           \* pages hidden from users: none, or some of a Vaio
          BlockRead,        \* the adapter reads a slice in one transfer
          Lease, Retry,     \* 300 * HZ and AT24_TIMEOUT
          Jiffies,          \* jiffies counts modulo this
          Boot,             \* jiffies at the time of the probe
          MaxEvents,        \* bound: ticks that pass and calls that are made
          MaxCalls,         \* bound: calls that are made
          Nobody

ASSUME EepromAssumption ==
  /\ NSlices \in Nat \ {0}
  /\ {Lease, Retry, MaxEvents, MaxCalls} \subseteq Nat
  /\ Jiffies \in Nat \ {0} /\ Boot \in 0 .. Jiffies - 1
  /\ Erased \in Value
  /\ Writers \subseteq Procs /\ Nobody \notin Procs
  /\ BlockRead \in BOOLEAN

PagesPerBlk == 2
NPages == NSlices * PagesPerBlk
Slices == 0 .. NSlices - 1
Pages  == 0 .. NPages - 1
SliceOf(g) == g \div PagesPerBlk
PagesOf(s) == {g \in Pages : SliceOf(g) = s}

ASSUME ContentsAssumption ==
  /\ Contents \subseteq [Pages -> Value]
  /\ Ranges \subseteq {<<off, count>> : off \in 0 .. NPages, count \in 1 .. NPages}

VARIABLES device,           \* what the eeprom holds
          data, valid, last_updated, update_lock,     \* struct eeprom_data
          jiffies,
          pc, call,         \* where each process is; the arguments of its call
          slice, page,      \* loop counters; in a write, page is wr_cnt
          seen,             \* the value of valid that |= and &= work on
          timeout, buf,     \* of the page being written; what a read returns
          now, calls,       \* ticks and calls so far
          began, filled, failed, calm     \* history, see below

cache   == <<data, last_updated, update_lock>>
history == <<now, calls, began, filled, failed, calm>>
vars == <<device, cache, valid, jiffies, pc, call, slice, page, seen, timeout, buf, history>>

(***************************************************************************)
(* Calls.  off may be the size of the device; count is cut to what is left *)
(* of it.  out is what the pages of a write's buffer hold, those behind    *)
(* count included.                                                         *)
(***************************************************************************)
NoCall == [write |-> FALSE, off |-> 0, count |-> 0, out |-> << >>]
Clamp(off, count) == IF off + count > NPages THEN NPages - off ELSE count
Calls(p) ==
  {[write |-> w, off |-> r[1], count |-> Clamp(r[1], r[2]), out |-> b] :
     w \in {x \in BOOLEAN : x => p \in Writers}, r \in Ranges, b \in Contents}

LastSlice(p) == (call[p].off + call[p].count - 1) \div PagesPerBlk
Asked(p)     == call[p].off .. call[p].off + call[p].count - 1

Active(p)  == pc[p] # "idle"
Writing(p) == Active(p) /\ call[p].write

(* time_after(a, b): the signed difference, so that it works across the    *)
(* wrap.                                                                   *)
TimeAfterUnsigned(a, b) == a > b                          \* mutant: plain comparison
TimeAfter(a, b) == (b - a) % Jiffies >= Jiffies \div 2

Init ==
  /\ device \in Contents /\ data = [g \in Pages |-> Erased]
  /\ valid = {} /\ last_updated = [s \in Slices |-> 0]
  /\ update_lock = Nobody
  /\ jiffies = Boot
  /\ pc = [p \in Procs |-> "idle"] /\ call = [p \in Procs |-> NoCall]
  /\ slice = [p \in Procs |-> 0] /\ page = [p \in Procs |-> 0]
  /\ seen = [p \in Procs |-> {}] /\ timeout = [p \in Procs |-> 0]
  /\ buf = [p \in Procs |-> << >>]
  /\ now = 0 /\ calls = 0 /\ began = [p \in Procs |-> 0] /\ filled = [s \in Slices |-> 0]
  /\ failed = [p \in Procs |-> FALSE] /\ calm = TRUE

Goto(p, label) == pc' = [pc EXCEPT ![p] = label]
Return(p) ==
  /\ Goto(p, "idle")
  /\ call' = [call EXCEPT ![p] = NoCall]
  /\ slice' = [slice EXCEPT ![p] = 0] /\ page' = [page EXCEPT ![p] = 0]
  /\ seen' = [seen EXCEPT ![p] = {}] /\ timeout' = [timeout EXCEPT ![p] = 0]
  /\ buf' = [buf EXCEPT ![p] = << >>]
  /\ began' = [began EXCEPT ![p] = 0] /\ failed' = [failed EXCEPT ![p] = FALSE]

(* History.  began: when the call began; filled: when the last refresh of  *)
(* the slice was completed; failed: a transfer of this read failed.  calm: *)
(* so far no write has overlapped another call, and every write began in   *)
(* the first slice.                                                        *)
Disturbs(p, c) ==
  \/ \E q \in Procs \ {p} : Active(q) /\ (c.write \/ Writing(q))
  \/ c.write /\ c.off \div PagesPerBlk # 0

Start(p) ==
  /\ ~Active(p) /\ calls < MaxCalls /\ now + calls < MaxEvents
  /\ calls' = calls + 1
  /\ \E c \in Calls(p) :
       /\ call' = [call EXCEPT ![p] = c]
       /\ slice' = [slice EXCEPT ![p] = c.off \div PagesPerBlk]
       /\ calm' = (calm /\ ~Disturbs(p, c))
       /\ Goto(p, IF c.write THEN "write" ELSE "read")
  /\ began' = [began EXCEPT ![p] = now]
  /\ UNCHANGED <<device, cache, valid, jiffies, page, seen, timeout, buf, now, filled, failed>>

(***************************************************************************)
(* eeprom_read.  Each slice that contains requested bytes is refreshed     *)
(* under update_lock unless it is valid and young.                         *)
(***************************************************************************)
Expired(s) ==
  \/ s \notin valid
  \/ TimeAfter(jiffies, (last_updated[s] + Lease) % Jiffies)

NextSlice(p) ==
  /\ slice' = [slice EXCEPT ![p] = @ + 1]
  /\ page' = [page EXCEPT ![p] = 0]
  /\ Goto(p, "read")

UpdateClient(p) ==
  /\ pc[p] = "read" /\ slice[p] <= LastSlice(p) /\ update_lock = Nobody
  /\ IF Expired(slice[p])
     THEN /\ update_lock' = p /\ Goto(p, "fill")
          /\ page' = [page EXCEPT ![p] = slice[p] * PagesPerBlk]
          /\ slice' = slice
     ELSE NextSlice(p) /\ update_lock' = update_lock
  /\ UNCHANGED <<device, data, last_updated, valid, jiffies, call, seen, timeout, buf, history>>

(* One transfer: the slice, or a word of the page.                         *)
Fetched(p) == IF BlockRead THEN PagesOf(slice[p]) ELSE {page[p]}
Fill(p) ==
  /\ pc[p] = "fill"
  /\ data' = [g \in Pages |-> IF g \in Fetched(p) THEN device[g] ELSE data[g]]
  /\ IF BlockRead \/ page[p] + 1 \notin PagesOf(slice[p])
     THEN Goto(p, "stamp") /\ page' = page
     ELSE page' = [page EXCEPT ![p] = @ + 1] /\ pc' = pc
  /\ UNCHANGED <<device, last_updated, update_lock, valid, jiffies, call, slice, seen, timeout, buf, history>>

(* A transfer that fails may have brought part of the bytes.  The slice is *)
(* not marked, and eeprom_read is not told.                                *)
FillFailsMarked(p) ==                              \* mutant: no goto exit
  /\ pc[p] = "fill"
  /\ Goto(p, "stamp")
  /\ failed' = [failed EXCEPT ![p] = TRUE]
  /\ UNCHANGED <<device, cache, valid, jiffies, call, slice, page, seen, timeout, buf, now, calls, began, filled, calm>>
FillFails(p) ==
  /\ pc[p] = "fill"
  /\ \E got \in SUBSET Fetched(p) :
       data' = [g \in Pages |-> IF g \in got THEN device[g] ELSE data[g]]
  /\ update_lock' = Nobody
  /\ NextSlice(p)
  /\ failed' = [failed EXCEPT ![p] = TRUE]
  /\ UNCHANGED <<device, last_updated, valid, jiffies, call, seen, timeout, buf, now, calls, began, filled, calm>>

(* last_updated[slice] = jiffies; valid |= (1 << slice), in two accesses.  *)
Stamp(p) ==
  /\ pc[p] = "stamp"
  /\ last_updated' = [last_updated EXCEPT ![slice[p]] = jiffies]
  /\ filled' = [filled EXCEPT ![slice[p]] = now]
  /\ seen' = [seen EXCEPT ![p] = valid]
  /\ Goto(p, "mark")
  /\ UNCHANGED <<device, data, update_lock, valid, jiffies, call, slice, page, timeout, buf, now, calls, began, failed, calm>>

Mark(p) ==
  /\ pc[p] = "mark"
  /\ valid' = seen[p] \cup {slice[p]}
  /\ seen' = [seen EXCEPT ![p] = {}]
  /\ update_lock' = Nobody
  /\ NextSlice(p)
  /\ UNCHANGED <<device, data, last_updated, jiffies, call, timeout, buf, history>>

(* The copy to the caller, outside the lock, and in one step because no    *)
(* property relates two pages of it; the settings of a Vaio are hidden     *)
(* from ordinary users.                                                    *)
Shown(p, g, contents) == IF g \in Hidden /\ p \notin Admins THEN Zero ELSE contents[g]
Copy(p) ==
  /\ pc[p] = "read" /\ slice[p] > LastSlice(p)
  /\ Goto(p, "copied")
  /\ buf' = [buf EXCEPT ![p] = [g \in Asked(p) |-> Shown(p, g, data)]]
  /\ UNCHANGED <<device, cache, valid, jiffies, call, slice, page, seen, timeout, history>>

ReadReturns(p) ==
  /\ pc[p] = "copied"
  /\ Return(p)
  /\ UNCHANGED <<device, cache, valid, jiffies, now, calls, filled, calm>>

(***************************************************************************)
(* eeprom_write.  For each slice that contains requested bytes: clear its  *)
(* bit, without the lock and in two accesses, then write the next two      *)
(* pages, counted from the beginning of the device.                        *)
(***************************************************************************)
ClearLoad(p) ==
  /\ pc[p] = "write" /\ slice[p] <= LastSlice(p)
  /\ seen' = [seen EXCEPT ![p] = valid]
  /\ Goto(p, "clear")
  /\ UNCHANGED <<device, cache, valid, jiffies, call, slice, page, timeout, buf, history>>

ClearStoreForgotten(p) ==                          \* mutant: bit not cleared
  /\ pc[p] = "clear"
  /\ valid' = seen[p]
  /\ timeout' = [timeout EXCEPT ![p] = (jiffies + Retry) % Jiffies]
  /\ seen' = [seen EXCEPT ![p] = {}]
  /\ Goto(p, "page")
  /\ UNCHANGED <<device, cache, jiffies, call, slice, page, buf, history>>
ClearStore(p) ==
  /\ pc[p] = "clear"
  /\ valid' = seen[p] \ {slice[p]}
  /\ timeout' = [timeout EXCEPT ![p] = (jiffies + Retry) % Jiffies]
  /\ seen' = [seen EXCEPT ![p] = {}]
  /\ Goto(p, "page")
  /\ UNCHANGED <<device, cache, jiffies, call, slice, page, buf, history>>

(* eeprom_write_page has succeeded: on to the next page, or the next slice.*)
WritePage(p) ==
  /\ pc[p] = "page"
  /\ device' = [device EXCEPT ![page[p]] = call[p].out[page[p]]]
  /\ page' = [page EXCEPT ![p] = @ + 1]
  /\ timeout' = [timeout EXCEPT ![p] = (jiffies + Retry) % Jiffies]
  /\ IF (page[p] + 1) % PagesPerBlk = 0
     THEN slice' = [slice EXCEPT ![p] = @ + 1] /\ Goto(p, "write")
     ELSE UNCHANGED <<slice, pc>>
  /\ UNCHANGED <<cache, valid, jiffies, call, seen, buf, history>>

(* An attempt that fails may yet have reached the device.  It is repeated  *)
(* until one has begun after the timeout; then the write is cut short.     *)
WritePageFailsCounted(p) ==                        \* mutant: page counted
  /\ pc[p] = "page"
  /\ \/ device' = device
     \/ device' = [device EXCEPT ![page[p]] = call[p].out[page[p]]]
  /\ IF TimeAfter(timeout[p], jiffies)
     THEN UNCHANGED <<pc, page>>
     ELSE Goto(p, "written") /\ page' = [page EXCEPT ![p] = @ + 1]
  /\ UNCHANGED <<cache, valid, jiffies, call, slice, seen, timeout, buf, history>>
WritePageFails(p) ==
  /\ pc[p] = "page"
  /\ \/ device' = device
     \/ device' = [device EXCEPT ![page[p]] = call[p].out[page[p]]]
  /\ IF TimeAfter(timeout[p], jiffies) THEN pc' = pc ELSE Goto(p, "written")
  /\ UNCHANGED <<cache, valid, jiffies, call, slice, page, seen, timeout, buf, history>>

AllWritten(p) ==
  /\ pc[p] = "write" /\ slice[p] > LastSlice(p)
  /\ Goto(p, "written")
  /\ UNCHANGED <<device, cache, valid, jiffies, call, slice, page, seen, timeout, buf, history>>

(* wr_cnt is returned.                                                     *)
WriteReturns(p) ==
  /\ pc[p] = "written"
  /\ Return(p)
  /\ UNCHANGED <<device, cache, valid, jiffies, now, calls, filled, calm>>

Tick ==
  /\ now + calls < MaxEvents
  /\ now' = now + 1 /\ jiffies' = (jiffies + 1) % Jiffies
  /\ UNCHANGED <<device, cache, valid, pc, call, slice, page, seen, timeout, buf, calls, began, filled, failed, calm>>

Next ==
  \/ Tick
  \/ \E p \in Procs :
       \/ Start(p)
       \/ UpdateClient(p) \/ Fill(p) \/ FillFails(p) \/ Stamp(p) \/ Mark(p)
       \/ Copy(p) \/ ReadReturns(p)
       \/ ClearLoad(p) \/ ClearStore(p) \/ WritePage(p) \/ WritePageFails(p)
       \/ AllWritten(p) \/ WriteReturns(p)

Spec == Init /\ [][Next]_vars

(***************************************************************************)
(* Properties.                                                             *)
(***************************************************************************)
(* Types.                                                                  *)
TypeOK ==
  /\ device \in [Pages -> Value] /\ data \in [Pages -> Value]
  /\ valid \subseteq Slices /\ last_updated \in [Slices -> 0 .. Jiffies - 1]
  /\ update_lock \in Procs \cup {Nobody} /\ jiffies \in 0 .. Jiffies - 1
  /\ pc \in [Procs -> {"idle", "read", "fill", "stamp", "mark", "copied",
                       "write", "clear", "page", "written"}]
  /\ \A p \in Procs : call[p] = NoCall \/ call[p] \in Calls(p)
  /\ slice \in [Procs -> Nat] /\ page \in [Procs -> Nat]
  /\ seen \in [Procs -> SUBSET Slices] /\ timeout \in [Procs -> 0 .. Jiffies - 1]
  /\ \A p \in Procs : DOMAIN buf[p] \subseteq Pages

(* As long as no write has overlapped another call or begun behind the     *)
(* first slice, a slice marked valid holds what the device holds, after    *)
(* failed transfers, timeouts and short writes too.                        *)
CoherentWhenCalm ==
  calm => \A g \in Pages : SliceOf(g) \in valid => data[g] = device[g]

(* Under the same condition a read none of whose transfers failed returns  *)
(* what the device holds, or zero for a page hidden from its caller.       *)
ReadSeesDevice ==
  \A p \in Procs : pc[p] = "copied" /\ calm /\ ~failed[p] =>
    \A g \in Asked(p) : buf[p][g] = Shown(p, g, device)

(* In any case, whatever overlaps and however jiffies wraps: what a read   *)
(* returns comes from refreshes completed within the lease before the      *)
(* call, unless a transfer of its own failed, or the refresh is so long    *)
(* ago that half a wrap of jiffies has made it young again.                *)
NotOlderThanLease ==
  \A p \in Procs : pc[p] = "copied" /\ ~failed[p] =>
    \A g \in Asked(p) :
      \/ filled[SliceOf(g)] + Lease >= began[p]
      \/ filled[SliceOf(g)] + Lease + Jiffies \div 2 < now

(* As long as it is calm, the count that a write returns is the number of  *)
(* pages of its buffer that the device holds from its beginning on.        *)
CountIsWritten ==
  \A p \in Procs : pc[p] = "written" /\ calm =>
    \A g \in 0 .. page[p] - 1 : device[g] = call[p].out[g]
=============================================================================
