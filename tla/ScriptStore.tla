---------------------------- MODULE ScriptStore ----------------------------
(***************************************************************************)
(* What a Lua script keeps on the persistent partition: its own files and  *)
(* the options of its interface, in a directory named by the script's id   *)
(* (src/scripting/storage.cpp); the actions of a plan that change them     *)
(* (src/scripting/runtime.cpp), the view a script has of them while it is  *)
(* evaluated (src/scripting/script.cpp), and the option that a user edits  *)
(* in the interface (src/http/api.cpp).                                    *)
(*                                                                         *)
(* All of it runs on the main loop, one change at a time, so what makes it *)
(* hard is what ends a change early: a call that fails, a runtime that is  *)
(* killed, a power loss; and the edits between two actions of a plan.  The *)
(* step of a change that is due is job.at.                                 *)
(*                                                                         *)
(* The options are one file, but are told apart here: `data` gives what is *)
(* stored for each file and each key.  A content is its size, and 0 is     *)
(* none; an option of a content in Unreadable, a number so small that      *)
(* strtod reports it as out of range, is written like the others, and from *)
(* then on the options as a whole cannot be read.  A power loss leaves one of the states of the directory since it  *)
(* was last flushed, `dur`; the entry of the directory itself is in its    *)
(* parent, and is flushed only there.                                      *)
(***************************************************************************)
EXTENDS Naturals, FiniteSets, Sequences, FiniteSetsExt

CONSTANTS
    CustomFile,        \* names of custom files
    Key,         \* keys of options
    MaxContent,  \* SCRIPT_STORAGE_FILE_MAX: the largest content
    Unreadable,  \* contents of options that are written and cannot be read back
    FilesMax,    \* SCRIPT_STORAGE_FILES_MAX
    TotalMax,    \* SCRIPT_STORAGE_TOTAL_MAX
    EntriesMax,  \* SCRIPT_STATE_ENTRIES_MAX
    Plan,        \* plans an evaluation may return: sequences of [x, v]
    OptionEdit,        \* edits the user may make: [x, v] of keys
    MaxId,       \* bound: the largest id of a script
    MaxStoreRequests, MaxStoreFaults, MaxCrashes  \* bounds

Target == CustomFile \cup Key

\* A name is that of a file or of an option, and no plan and no edit asks for
\* more than the largest content (script.cpp:1007).
ASSUME StoreAssumption ==
    /\ IsFiniteSet(Target) /\ CustomFile \cap Key = {}
    /\ {MaxContent, FilesMax, TotalMax, EntriesMax} \subseteq Nat /\ MaxId \in Nat \ {0}
    /\ \A p \in Plan : p \in Seq([x : Target, v : 0..MaxContent])
    /\ OptionEdit \subseteq [x : Key, v : 0..MaxContent]

VARIABLES
    disk,      \* the directory: [made, data, temps], temps counting ".write-*"
    dur,       \* the directories a power loss may leave
    job,       \* the change that is under way
    plan,      \* the actions of the active plan that are left
    scripts,   \* ids of the saved scripts; the directory is that of id 1
    promised,  \* history: what the script was shown of the outcome of its plan
    edited,    \* history: keys edited in the interface since
    may,       \* history: what each file and key may hold after a power loss
    unflushed, \* history: a new directory was left without its parent's flush
    foreign,   \* history: a new script was given data of another
    storeLeft

storeVars == <<disk, dur, job, plan, scripts, promised, edited, may, unflushed, foreign, storeLeft>>

None == 0
Torn == MaxContent + 1
Nothing == [x \in Target |-> None]

NoDirectory == [made |-> FALSE, data |-> Nothing, temps |-> 0]
Free == [at |-> "idle"]
NoJob == job = Free

Stored(data, S) == {x \in S : data[x] # None}

\* The bytes that are stored, of all files and options together.
Bytes(data) == UNION {{x} \X (1..data[x]) : x \in Target}
Total(data) == Cardinality(Bytes(data))

StoreInit ==
    /\ disk = NoDirectory /\ dur = {NoDirectory} /\ job = Free /\ plan = <<>>
    /\ scripts = {1} /\ promised = {} /\ edited = {}
    /\ may = [x \in Target |-> {None}]
    /\ unflushed = FALSE /\ foreign = FALSE
    /\ storeLeft = [request |-> MaxStoreRequests, fault |-> MaxStoreFaults, crash |-> MaxCrashes]

SpendStore(kind) == storeLeft[kind] > 0 /\ storeLeft' = [storeLeft EXCEPT ![kind] = @ - 1]
Unspent == UNCHANGED storeLeft
Script == UNCHANGED <<scripts, foreign>>

-----------------------------------------------------------------------------
(* The directory.                                                          *)

\* A call that changes an entry: seen at once, durable when it is flushed.
Change(d) == disk' = d /\ dur' = dur \cup {d}

\* fsync(directory): its entries, but not its own entry in the parent.
Flushed == {disk} \cup {d \in dur : ~d.made}

-----------------------------------------------------------------------------
(* A change begins, and ends.                                              *)

BeginChange(by, a) ==
    /\ job' = [at |-> IF a.v = None /\ a.x \in CustomFile THEN "remove" ELSE "open",
               by |-> by, x |-> a.x, v |-> a.v]
    /\ may' = [may EXCEPT ![a.x] = @ \cup {a.v}]

\* What comes of the plan when one of its actions ends: the next action, or
\* failMacro, which ends the plan.
PlanGoesOn(ok) ==
    IF job.by = "plan" THEN /\ plan' = IF ok THEN Tail(plan) ELSE <<>>
                            /\ promised' = IF ok THEN promised ELSE {}
    ELSE UNCHANGED <<plan, promised>>

\* The change has been flushed.
Succeed ==
    /\ job' = Free /\ PlanGoesOn(TRUE)
    /\ may' = [may EXCEPT ![job.x] = {job.v}]

\* removeFile found nothing to remove: success, and nothing is flushed.
FoundAbsent == job' = Free /\ PlanGoesOn(TRUE) /\ UNCHANGED may

Fail == job' = Free /\ PlanGoesOn(FALSE) /\ UNCHANGED may

GoTo(at) == job' = [job EXCEPT !.at = at] /\ UNCHANGED <<plan, promised, may>>

StepIs(step) == job # Free /\ job.at = step /\ Script /\ UNCHANGED edited

-----------------------------------------------------------------------------
(* The steps of write and writeLocked, and of removeFile.  A step that     *)
(* fails is the same step with a fault.                                    *)

\* openDirectory(true)
Open ==
    /\ StepIs("open") /\ UNCHANGED unflushed
    /\ \/ disk.made /\ Unspent /\ GoTo("scan") /\ UNCHANGED <<disk, dur>>
       \/ ~disk.made /\ Unspent /\ GoTo("root") /\ Change([disk EXCEPT !.made = TRUE])
       \/ SpendStore("fault") /\ Fail /\ UNCHANGED <<disk, dur>>

\* openDirectory: fsync(root) after mkdirat.  A directory that is there
\* already is not flushed again.
FlushRoot ==
    /\ StepIs("root") /\ UNCHANGED disk
    /\ \/ Unspent /\ GoTo("scan") /\ dur' = {d \in dur : d.made} /\ UNCHANGED unflushed
       \/ SpendStore("fault") /\ Fail /\ unflushed' = TRUE /\ UNCHANGED dur

\* setSetting reads the options that are stored, not those that the script
\* was shown, and changes one of them.
After == [disk.data EXCEPT ![job.x] = job.v]

\* readSettings: one line that is refused fails the whole file.
Readable(data) == \A k \in Key : data[k] \notin Unreadable

\* setSetting: what has to hold before anything is written.
OptionFits ==
    job.x \in Key => Readable(disk.data) /\ Cardinality(Stored(After, Key)) <= EntriesMax

\* scan with cleanup: what earlier writes left is removed first.  (It refuses a
\* directory beyond the limits; StaysWritable says that there is none.)
Scan ==
    /\ StepIs("scan") /\ UNCHANGED unflushed
    /\ \/ ~OptionFits /\ Unspent /\ Fail /\ UNCHANGED <<disk, dur>>
       \/ OptionFits /\ disk.temps = 0 /\ Unspent /\ GoTo("create") /\ UNCHANGED <<disk, dur>>
       \/ OptionFits /\ disk.temps > 0 /\ Unspent /\ GoTo("swept") /\ Change([disk EXCEPT !.temps = 0])
       \/ SpendStore("fault") /\ Fail /\ UNCHANGED <<disk, dur>>

\* scan: fsync(fd) once something was removed.
FlushSwept ==
    /\ StepIs("swept") /\ UNCHANGED <<disk, unflushed>>
    /\ \/ Unspent /\ GoTo("create") /\ dur' = Flushed
       \/ SpendStore("fault") /\ Fail /\ UNCHANGED dur

\* writeLocked: the limits of the files and of all that is stored.
FitsQuota(data) ==
    /\ job.x \in CustomFile /\ disk.data[job.x] = None => Cardinality(Stored(disk.data, CustomFile)) < FilesMax
    /\ Total(data) <= TotalMax

\* writeLocked: the limits, and a temporary file of a name that is not taken.
Create ==
    /\ StepIs("create") /\ UNCHANGED unflushed
    /\ \/ /\ FitsQuota(After) /\ Unspent /\ GoTo("sync")
          /\ Change([disk EXCEPT !.temps = @ + 1])
       \/ ~FitsQuota(After) /\ Unspent /\ Fail /\ UNCHANGED <<disk, dur>>
       \/ SpendStore("fault") /\ Fail /\ UNCHANGED <<disk, dur>>

\* Mutant of Sync: the file is renamed as soon as it has been written.
SyncLater ==
    /\ StepIs("sync") /\ UNCHANGED <<disk, unflushed>>
    /\ Unspent /\ GoTo("rename")
    /\ dur' = dur \cup {[disk EXCEPT !.data[job.x] = Torn, !.temps = @ - 1]}

\* writeLocked: the data, fsync(fd) and close.
Sync ==
    /\ StepIs("sync") /\ UNCHANGED <<disk, dur, unflushed>>
    /\ \/ Unspent /\ GoTo("rename")
       \/ SpendStore("fault") /\ GoTo("unlink")

RenameFile ==
    /\ StepIs("rename") /\ UNCHANGED unflushed
    /\ \/ Unspent /\ GoTo("flush") /\ Change([disk EXCEPT !.data = After, !.temps = @ - 1])
       \/ SpendStore("fault") /\ GoTo("unlink") /\ UNCHANGED <<disk, dur>>

\* writeLocked: unlinkat of a file that could not be written; its result is
\* not looked at.
Unlink ==
    /\ StepIs("unlink") /\ Fail /\ UNCHANGED unflushed
    /\ \/ Unspent /\ Change([disk EXCEPT !.temps = @ - 1])
       \/ SpendStore("fault") /\ UNCHANGED <<disk, dur>>

\* writeLocked, removeFile: fsync(directory).
Flush ==
    /\ StepIs("flush") /\ UNCHANGED <<disk, unflushed>>
    /\ \/ Unspent /\ Succeed /\ dur' = Flushed
       \/ SpendStore("fault") /\ Fail /\ UNCHANGED dur

\* removeFile
RemoveFile ==
    /\ StepIs("remove") /\ UNCHANGED unflushed
    /\ \/ /\ ~disk.made \/ disk.data[job.x] = None
          /\ Unspent /\ FoundAbsent /\ UNCHANGED <<disk, dur>>
       \/ /\ disk.made /\ disk.data[job.x] # None
          /\ Unspent /\ GoTo("flush") /\ Change([disk EXCEPT !.data[job.x] = None])
       \/ SpendStore("fault") /\ Fail /\ UNCHANGED <<disk, dur>>

-----------------------------------------------------------------------------
(* Who begins a change.                                                    *)

\* storageRead, storageList, scriptConfigSet: what is stored, under the
\* actions that the plan has so far.
Changes(p, x) == {n \in DOMAIN p : p[n].x = x}
Overlay(data, p) ==
    [x \in Target |-> IF Changes(p, x) = {} THEN data[x] ELSE p[Max(Changes(p, x))].v]

\* An evaluation that cannot read the options it changes, or asks for more of
\* them than there may be, is an error.
Evaluates(p) ==
    /\ (\E n \in DOMAIN p : p[n].x \in Key) => Readable(disk.data)
    /\ \A n \in 0..Len(p) :
        Cardinality(Stored(Overlay(disk.data, SubSeq(p, 1, n)), Key)) <= EntriesMax

Evaluate ==
    /\ NoJob /\ plan = <<>> /\ 1 \in scripts /\ SpendStore("request")
    /\ \E p \in Plan :
        /\ Evaluates(p)
        /\ plan' = p /\ promised' = {Overlay(disk.data, p)} /\ edited' = {}
    /\ Script /\ UNCHANGED <<disk, dur, job, may, unflushed>>

\* The next action of the plan.  It is taken off the plan when it has ended.
PlayAction ==
    /\ NoJob /\ plan # <<>> /\ Unspent
    /\ BeginChange("plan", Head(plan))
    /\ Script /\ UNCHANGED <<disk, dur, plan, promised, edited, unflushed>>

\* The plan ends for another reason: a device that left, the time limit.
PlanFails ==
    /\ NoJob /\ plan # <<>> /\ Unspent
    /\ plan' = <<>> /\ promised' = {}
    /\ Script /\ UNCHANGED <<disk, dur, job, edited, may, unflushed>>

\* The edit of a control that is not a button: also while a plan waits between
\* two of its actions.  Its event, queued before and taken back when this
\* fails, is one of ScriptRuntime's queue.
EditOption ==
    /\ NoJob /\ 1 \in scripts /\ SpendStore("request")
    /\ \E a \in OptionEdit : BeginChange("ui", a) /\ edited' = edited \cup {a.x}
    /\ Script /\ UNCHANGED <<disk, dur, plan, promised, unflushed>>

-----------------------------------------------------------------------------
(* Scripts come and go; their directories stay.                            *)

\* nextId: above the saved scripts and above every directory.
NextId == Max({1} \cup {i + 1 : i \in scripts} \cup IF disk.made THEN {2} ELSE {})

\* Saving or removing a script stops the plan that runs (syncMacros).
Stopped == plan' = <<>> /\ promised' = {} /\ UNCHANGED <<disk, dur, job, edited, may, unflushed>>

NewScript ==
    /\ NoJob /\ Unspent /\ NextId <= MaxId
    /\ scripts' = scripts \cup {NextId}
    /\ foreign' = (foreign \/ (NextId = 1 /\ disk.data # Nothing))
    /\ Stopped

RemoveScript ==
    /\ NoJob /\ SpendStore("request")
    /\ \E i \in scripts : scripts' = scripts \ {i}
    /\ Stopped /\ UNCHANGED foreign

-----------------------------------------------------------------------------
(* What ends everything.                                                   *)

\* The runtime is killed: what it did is seen, and its change is over.
Killed ==
    /\ SpendStore("crash") /\ (job # Free \/ plan # <<>>)
    /\ job' = Free /\ plan' = <<>> /\ promised' = {}
    /\ unflushed' = (unflushed \/ (job # Free /\ job.at = "root"))
    /\ Script /\ UNCHANGED <<disk, dur, edited, may>>

PowerLoss ==
    /\ SpendStore("crash")
    /\ \E d \in dur :
        /\ disk' = d /\ dur' = {d}
        /\ may' = [x \in Target |-> {d.data[x]}]
    /\ job' = Free /\ plan' = <<>> /\ promised' = {} /\ edited' = {} /\ unflushed' = FALSE
    /\ Script

StoreNext ==
    \/ Open \/ FlushRoot \/ Scan \/ FlushSwept \/ Create \/ Sync \/ RenameFile \/ Unlink \/ Flush
    \/ RemoveFile \/ Evaluate \/ PlayAction \/ PlanFails \/ EditOption
    \/ NewScript \/ RemoveScript \/ Killed \/ PowerLoss

StoreSpec == StoreInit /\ [][StoreNext]_storeVars

-----------------------------------------------------------------------------

StoreTyped ==
    /\ disk \in dur
    /\ \A d \in dur : d.data \in [Target -> 0..Torn] /\ d.temps \in Nat
    /\ scripts \subseteq 1..MaxId
    /\ \A x \in Target : may[x] # {} /\ may[x] \subseteq 0..MaxContent
    /\ plan # <<>> => 1 \in scripts

\* Whatever ends a change, and when the power fails: each file and option is
\* what was acknowledged last or what a change that was not acknowledged put
\* there, never a part of it, and a change of one leaves the others; except
\* for a directory whose own entry was never flushed, which may be gone
\* (storage.cpp:202-240, 303-336; "an atomic, flushed custom-file
\* replacement", docs/lua/api.md:109).
OldOrNew ==
    \A d \in dur :
        \/ unflushed /\ ~d.made
        \/ \A x \in Target : d.data[x] \in may[x]

\* No state of the directory that a crash may leave keeps its script from
\* writing files: the limits hold, with what is left of one write at the most,
\* which the next write removes (storage.cpp:27-73, 205-212, 236).
StaysWritable ==
    \A d \in dur :
        /\ Cardinality(Stored(d.data, CustomFile)) <= FilesMax
        /\ Cardinality(Stored(d.data, Key)) <= EntriesMax
        /\ Total(d.data) <= TotalMax
        /\ d.temps <= 1

\* A plan that came to its end left what the script was shown when it read
\* back its own changes (script.cpp:977-1124), and did not undo what the user
\* edited meanwhile.
PlanDidAsShown ==
    NoJob /\ plan = <<>> => \A w \in promised : \A x \in Target \ edited : disk.data[x] = w[x]

\* A new script does not find the files of one that was removed
\* (storage.cpp:338-374; "newly allocated script IDs do not reuse stored
\* directories", docs/lua/api.md:129).
NothingIsInherited == ~foreign

FilesAreKept == OldOrNew /\ StaysWritable /\ PlanDidAsShown /\ NothingIsInherited
=============================================================================
