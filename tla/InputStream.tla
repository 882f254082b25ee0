---------------------------- MODULE InputStream ----------------------------
(***************************************************************************)
(* BluetoothInputStream of include/audio/bluetooth_stream.hpp: the ring    *)
(* through which the Bluetooth worker hands decoded audio to the audio     *)
(* thread, and its restart for another device.                             *)
(*                                                                         *)
(* Both threads run between any two loads and stores of the other.  The    *)
(* restart is the delicate part: the worker only says where the new stream *)
(* begins, and the reader, which may be past that point by then, goes BACK *)
(* to it, while the worker still counts the frames it has read as free.    *)
(*                                                                         *)
(* A frame is its index.  Frame i lies in slot i % Ring, so that writing   *)
(* frame i destroys frame i - Ring: of the memory it is enough to know how *)
(* far it has been written.                                                *)
(***************************************************************************)
EXTENDS Naturals

CONSTANTS
    Ring,           \* AUDIO_BT_PCM_RING_FRAMES
    Margin,         \* 2048: a reader that is nearer to the writer's tail skips
    Target,         \* targetFill(): latency aimed at
    Block,          \* frames a render() takes, resampled
    MaxPush,        \* frames of a push(): one decoded SBC frame has 128 at most
    MaxWritten,     \* bound: frames written in all
    MaxStarts       \* bound: restarts

ASSUME StreamAssumption ==
    /\ Ring \in Nat /\ Margin \in Nat /\ Target \in Nat /\ Block \in Nat \ {0}
    /\ MaxPush \in Nat /\ MaxWritten \in Nat /\ MaxStarts \in Nat
    /\ MaxPush <= Margin /\ Target + Margin <= Ring

VARIABLES
    write, read,        \* the two indices
    startIndex, generation,
    wpc, top,           \* the worker: its place; the frames below top are
                        \* written or being written
    last,               \* writeIndex + accepted of its push
    rpc, seen,          \* the audio thread: its place, seenGeneration
    primed,
    readIndex, available, at, \* its block: where it begins, how long it may be,
                        \* the frame it is reading
    began, since        \* history: startIndex as the newest generation was
                        \* announced, and as the one the reader has seen was

workerVars == <<write, startIndex, generation, wpc, top, last, began>>
readerVars == <<read, rpc, seen, primed, readIndex, available, at, since>>
vars == <<workerVars, readerVars>>

Init ==
    /\ write = 0 /\ startIndex = 0 /\ generation = 0 /\ began = 0
    /\ wpc = "idle" /\ top = 0 /\ last = 0
    /\ read = 0 /\ rpc = "idle" /\ seen = 0 /\ primed = FALSE /\ since = 0
    /\ readIndex = 0 /\ available = 0 /\ at = 0

-----------------------------------------------------------------------------
(* The Bluetooth worker.                                                   *)

\* start() and stop(): where the stream begins, then the news of it.
Mark ==
    /\ wpc = "idle" /\ generation < MaxStarts
    /\ startIndex' = write
    /\ wpc' = "announce"
    /\ UNCHANGED <<write, generation, top, last, began, readerVars>>

Announce ==
    /\ wpc = "announce"
    /\ generation' = generation + 1 /\ began' = startIndex
    /\ wpc' = "idle"
    /\ UNCHANGED <<write, startIndex, top, last, readerVars>>

\* What a writer at w may add when the reader is at r.
Free(w, r) == IF w - r >= Ring THEN 0 ELSE Ring - (w - r)

\* push(): what fits is accepted,
BeginPush(frames) ==
    /\ wpc = "idle" /\ write + frames <= MaxWritten
    /\ last' = write + (IF frames < Free(write, read) THEN frames ELSE Free(write, read))
    /\ top' = write
    /\ wpc' = "push"
    /\ UNCHANGED <<write, startIndex, generation, began, readerVars>>

\* written frame by frame,
WriteFrame ==
    /\ wpc = "push" /\ top < last
    /\ top' = top + 1
    /\ UNCHANGED <<write, startIndex, generation, wpc, last, began, readerVars>>

\* and shown to the reader.
EndPush ==
    /\ wpc = "push" /\ top = last
    /\ write' = last
    /\ wpc' = "idle"
    /\ UNCHANGED <<startIndex, generation, top, last, began, readerVars>>

-----------------------------------------------------------------------------
(* The audio thread: render().                                             *)

BeginRender ==
    /\ rpc = "idle"
    /\ seen' = generation /\ since' = IF generation = seen THEN since ELSE began
    /\ rpc' = IF generation = seen THEN "load" ELSE "restart"
    /\ readIndex' = read
    /\ UNCHANGED <<read, primed, available, at, workerVars>>

\* Mutant: the reader stays where it is.
RestartHere ==
    /\ rpc = "restart"
    /\ primed' = FALSE
    /\ rpc' = "load"
    /\ UNCHANGED <<read, seen, readIndex, available, at, since, workerVars>>

\* Another stream: it is read from its beginning.
Restart ==
    /\ rpc = "restart"
    /\ readIndex' = startIndex /\ read' = startIndex
    /\ primed' = FALSE
    /\ rpc' = "load"
    /\ UNCHANGED <<seen, available, at, since, workerVars>>

TooFar(a) == a > Ring - Margin

\* The buffer fills up to Target first; a reader too far behind skips.
LoadWrite ==
    /\ rpc = "load"
    /\ LET a == write - readIndex
       IN IF ~primed /\ a < Target
          THEN rpc' = "idle" /\ UNCHANGED <<primed, readIndex, available, at>>
          ELSE /\ primed' = TRUE
               /\ available' = IF TooFar(a) THEN Target ELSE a
               /\ readIndex' = write - available'
               /\ at' = readIndex'
               /\ rpc' = "read"
    /\ UNCHANGED <<read, seen, since, workerVars>>

Reading == rpc = "read" /\ at < readIndex + available

\* Block frames and the one after, for interpolation, if there are so many.
ReadFrame ==
    /\ Reading /\ at < readIndex + Block
    /\ at' = at + 1
    /\ UNCHANGED <<read, rpc, seen, primed, readIndex, available, since, workerVars>>

\* Enough was there, or the buffer ran dry and fills up again.
EndRender ==
    /\ rpc = "read" /\ (at = readIndex + Block \/ ~Reading)
    /\ read' = IF Block < available THEN readIndex + Block ELSE readIndex + available
    /\ primed' = (Block < available)
    /\ rpc' = "idle"
    /\ UNCHANGED <<seen, readIndex, available, at, since, workerVars>>

Next ==
    \/ Mark \/ Announce \/ WriteFrame \/ EndPush
    \/ \E frames \in 1..MaxPush : BeginPush(frames)
    \/ BeginRender \/ Restart \/ LoadWrite \/ ReadFrame \/ EndRender

Spec == Init /\ [][Next]_vars

-----------------------------------------------------------------------------
(* Properties.                                                             *)

TypeOK ==
    /\ write \in Nat /\ read \in Nat /\ startIndex \in Nat /\ generation \in Nat
    /\ top \in Nat /\ last \in Nat /\ began \in Nat /\ since \in Nat
    /\ seen \in Nat /\ readIndex \in Nat /\ available \in Nat /\ at \in Nat
    /\ wpc \in {"idle", "announce", "push"}
    /\ rpc \in {"idle", "restart", "load", "read"}
    /\ primed \in BOOLEAN

\* A frame the audio thread reads is whole: it has been written, and its slot
\* is not written again, also by a push() that began before the reader went
\* back to the start of another stream (the skip in render()).
FramesAreWhole == Reading => at < write /\ top <= at + Ring

\* A render() that has seen that another device feeds the stream plays nothing
\* of the device before it.
OldStreamIsOver == Reading => at >= since

\* What render() plays is neither torn nor left over, whenever another device
\* takes the ring over.
StreamIsSound == FramesAreWhole /\ OldStreamIsOver
=============================================================================
