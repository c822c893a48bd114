--------------------------- MODULE SampleNumbers ---------------------------
(***************************************************************************)
(* The number of a sample.  The FPGA counts the triggers.  A trigger makes *)
(* the camera shoot, or, when it comes too soon after the last, raises the *)
(* overclock interrupt instead.  sig_handler numbers the overclocked       *)
(* samples from the FPGA's count and leaves the numbers in count_array;    *)
(* image_capture_tsk numbers the pictures from sample_count_shoot and      *)
(* sample_count_sum and finds the gaps to skip in count_array.  The two    *)
(* threads, and the thread that resets the counts, use no common lock.     *)
(***************************************************************************)
EXTENDS Naturals, Sequences

CONSTANTS
  MAX_COUNT_ARRAY,
  MaxTriggers, MaxZeroed     \* bounds: triggers between resets, resets

ASSUME SampleNumbersAssumption ==
  MAX_COUNT_ARRAY \in Nat \ {0} /\ MaxTriggers \in Nat /\ MaxZeroed \in Nat

VARIABLES
  triggers,                  \* FPGA_FACTTRIGNUM
  frames,                    \* pictures not captured yet, by their trigger
  overclocked,               \* the trigger of the pending interrupt, or 0
  sample_count_shoot, sample_count_sum,
  count_array, sample_count_index,
  capture,                   \* where image_capture_tsk is in numbering a picture
  zeroing, zeroed,           \* a reset is between the FPGA and the counts
  numbered,                  \* the last sample numbered: its trigger, its number
  excused                    \* something happened that the numbering is not
                             \* made for (see NumberIsTrigger)

numberVars == <<triggers, frames, overclocked, sample_count_shoot, sample_count_sum,
                count_array, sample_count_index, capture, zeroing, zeroed, numbered,
                excused>>

Unused == [valid |-> FALSE, count |-> 0]
Capturing(at, trigger) == [at |-> at, trigger |-> trigger]

NumbersTypeOK ==
  /\ triggers \in 0 .. MaxTriggers /\ overclocked \in 0 .. MaxTriggers
  /\ capture.at \in {"idle", "test", "read", "find", "plain", "skip"}
  /\ \A i \in DOMAIN count_array : count_array[i].count \in 0 .. MaxTriggers
  /\ sample_count_index \in 0 .. MAX_COUNT_ARRAY - 1
  /\ zeroed \in 0 .. MaxZeroed /\ {zeroing, excused} \subseteq BOOLEAN

NumbersInit ==
  /\ triggers = 0 /\ frames = <<>> /\ overclocked = 0
  /\ sample_count_shoot = 0 /\ sample_count_sum = 0
  /\ count_array = [i \in 0 .. MAX_COUNT_ARRAY - 1 |-> Unused]
  /\ sample_count_index = 0 /\ capture = Capturing("idle", 0)
  /\ zeroing = FALSE /\ zeroed = 0
  /\ numbered = [trigger |-> 0, count |-> 0] /\ excused = FALSE

Valid == {i \in DOMAIN count_array : count_array[i].valid}
Busy == frames # <<>> \/ capture.at # "idle"
NextPicture == IF capture.at # "idle" THEN capture.trigger ELSE Head(frames)

-----------------------------------------------------------------------------
(* the FPGA *)

\* Bound: once excused, a behaviour is followed no further than to the numbers
\* of the samples already there.
Followed == ~excused

Shoot ==
  /\ triggers < MaxTriggers /\ Followed
  /\ triggers' = triggers + 1 /\ frames' = Append(frames, triggers + 1)
  /\ excused' = (excused \/ Busy \/ overclocked # 0 \/ zeroing)
  /\ UNCHANGED <<overclocked, sample_count_shoot, sample_count_sum, count_array,
                 sample_count_index, capture, zeroing, zeroed, numbered>>

Overclock ==
  /\ triggers < MaxTriggers /\ Followed
  /\ triggers' = triggers + 1 /\ overclocked' = triggers + 1
  /\ excused' = (excused \/ overclocked # 0 \/ zeroing)
  /\ UNCHANGED <<frames, sample_count_shoot, sample_count_sum, count_array,
                 sample_count_index, capture, zeroing, zeroed, numbered>>

-----------------------------------------------------------------------------
(* sig_handler *)

\* The handler reads the FPGA's count, numbers the sample, and write_sample_count
\* puts the number over the oldest entry.
NumberOverclocked ==
  /\ overclocked # 0 /\ overclocked' = 0
  /\ sample_count_sum' = triggers
  /\ numbered' = [trigger |-> overclocked, count |-> triggers]
  /\ count_array' =
       [count_array EXCEPT ![sample_count_index] = [valid |-> TRUE, count |-> triggers]]
  /\ sample_count_index' = (sample_count_index + 1) % MAX_COUNT_ARRAY
  /\ excused' = \/ excused \/ capture.at \in {"find", "plain", "skip"}
                \/ Busy /\ NextPicture > sample_count_shoot + 1
                \/ /\ count_array[sample_count_index].valid
                   /\ count_array[sample_count_index].count > sample_count_shoot
  /\ UNCHANGED <<triggers, frames, sample_count_shoot, capture, zeroing, zeroed>>

-----------------------------------------------------------------------------
(* image_capture_tsk *)

CaptureFrame ==
  /\ capture.at = "idle" /\ frames # <<>>
  /\ frames' = Tail(frames) /\ capture' = Capturing("test", Head(frames))
  /\ UNCHANGED <<triggers, overclocked, sample_count_shoot, sample_count_sum, count_array,
                 sample_count_index, zeroing, zeroed, numbered, excused>>

Number(n) == numbered' = [trigger |-> capture.trigger, count |-> n]

\* A picture that was shot before all counts so far gets no number of its own.
TestCounts ==
  /\ capture.at = "test"
  /\ \/ /\ sample_count_shoot = sample_count_sum
        /\ sample_count_shoot' = sample_count_shoot + 1
        /\ capture' = [capture EXCEPT !.at = "read"] /\ UNCHANGED numbered
     \/ /\ sample_count_shoot < sample_count_sum
        /\ capture' = [capture EXCEPT !.at = "find"]
        /\ UNCHANGED <<sample_count_shoot, numbered>>
     \/ /\ sample_count_shoot > sample_count_sum
        /\ capture' = Capturing("idle", 0) /\ Number(0) /\ UNCHANGED sample_count_shoot
  /\ UNCHANGED <<triggers, frames, overclocked, sample_count_sum, count_array,
                 sample_count_index, zeroing, zeroed, excused>>

\* A picture that comes while the FPGA's count is zero is of before the reset.
ReadCount ==
  /\ capture.at = "read" /\ capture' = Capturing("idle", 0)
  /\ sample_count_sum' = triggers
  /\ IF triggers = 0 THEN sample_count_shoot' = 0 /\ UNCHANGED numbered
     ELSE Number(sample_count_shoot) /\ UNCHANGED sample_count_shoot
  /\ UNCHANGED <<triggers, frames, overclocked, count_array, sample_count_index, zeroing,
                 zeroed, excused>>

FindCountOfLast ==
  LET hits == {i \in Valid : count_array[i].count = sample_count_shoot} IN
  /\ capture.at = "find"
  /\ capture' = [capture EXCEPT !.at = IF hits = {} THEN "plain" ELSE "skip"]
  /\ count_array' =
       IF hits = {} THEN count_array
       ELSE [count_array EXCEPT ![CHOOSE i \in hits : \A j \in hits : i <= j].valid = FALSE]
  /\ UNCHANGED <<triggers, frames, overclocked, sample_count_shoot, sample_count_sum,
                 sample_count_index, zeroing, zeroed, numbered, excused>>

\* find_current_count
FindCount ==
  LET hits == {i \in Valid : count_array[i].count = sample_count_shoot + 1} IN
  /\ capture.at = "find"
  /\ capture' = [capture EXCEPT !.at = IF hits = {} THEN "plain" ELSE "skip"]
  /\ count_array' =
       IF hits = {} THEN count_array
       ELSE [count_array EXCEPT ![CHOOSE i \in hits : \A j \in hits : i <= j].valid = FALSE]
  /\ UNCHANGED <<triggers, frames, overclocked, sample_count_shoot, sample_count_sum,
                 sample_count_index, zeroing, zeroed, numbered, excused>>

NumberNext ==
  /\ capture.at = "plain" /\ capture' = Capturing("idle", 0)
  /\ Number(sample_count_shoot + 1) /\ sample_count_shoot' = sample_count_sum
  /\ UNCHANGED <<triggers, frames, overclocked, sample_count_sum, count_array,
                 sample_count_index, zeroing, zeroed, excused>>

NumberPast ==
  /\ capture.at = "skip" /\ capture' = Capturing("idle", 0)
  /\ Number(sample_count_sum + 1)
  /\ sample_count_shoot' = sample_count_sum + 1
  /\ sample_count_sum' = sample_count_sum + 1
  /\ UNCHANGED <<triggers, frames, overclocked, count_array, sample_count_index, zeroing,
                 zeroed, excused>>

CaptureStep == CaptureFrame \/ TestCounts \/ ReadCount \/ FindCount \/ NumberNext \/ NumberPast

-----------------------------------------------------------------------------
(* sc_system_reset: first the FPGA, then the counts *)

fpga_reset ==
  /\ ~zeroing /\ zeroed < MaxZeroed /\ Followed
  /\ zeroing' = TRUE /\ zeroed' = zeroed + 1 /\ triggers' = 0
  /\ excused' = (excused \/ Busy \/ overclocked # 0 \/ Valid # {})
  /\ UNCHANGED <<frames, overclocked, sample_count_shoot, sample_count_sum, count_array,
                 sample_count_index, capture, numbered>>

sample_count_reset ==
  /\ zeroing /\ zeroing' = FALSE
  /\ sample_count_shoot' = 0 /\ sample_count_sum' = 0
  /\ UNCHANGED <<triggers, frames, overclocked, count_array, sample_count_index, capture,
                 zeroed, numbered, excused>>

NumbersStep ==
  \/ Shoot \/ Overclock \/ NumberOverclocked \/ CaptureStep
  \/ fpga_reset \/ sample_count_reset

-----------------------------------------------------------------------------
(* property *)

\* A sample gets the number of its trigger, overclocked or not, in whatever order
\* the interrupt and the picture are handled, as long as
\*   - each picture has its number before the next one is shot, and an interrupt
\*     is handled before the next trigger.  One picture that waits is too many:
\*     with 1 and 2 shot, 3 overclocked and handled, picture 1 gets its number and
\*     sample_count_shoot goes on to 3, and picture 2 gets 4;
\*   - no interrupt is handled while capture, having found that samples were
\*     numbered before its picture, has still to choose the number;
\*   - no interrupt overtakes a picture that itself follows an overclocked sample;
\*   - count_array has not come round to a number that is still needed;
\*   - a reset finds nothing under way and no number left in count_array, and no
\*     trigger comes before it has set both counts to 0.
NumberIsTrigger == ~excused => numbered.trigger = numbered.count
=============================================================================
