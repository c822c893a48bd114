------------------------------ MODULE Uplink ------------------------------
(***************************************************************************)
(* What the board sends to the PC and the UI process.                      *)
(*                                                                         *)
(* NET_UL(0x45530101) reports a sample: the capture, DSP and interrupt     *)
(* threads copy it into a ring and post a message that points there.       *)
(* sample_send_process counts the reports under way and g_sample_ability   *)
(* stops them when the ring is full.  NET_UL(0x45530102) copies a picture  *)
(* into one buffer, guarded by g_img_ability.  The other uploads point at  *)
(* static data.  net_send_tsk and ui_send_tsk send and recycle.            *)
(***************************************************************************)
EXTENDS MessagePool

CONSTANTS
  Reporters,                 \* threads that report samples
  SAMPLE_INFO_ARRAY_MAX,
  MaxSamples, MaxPictures    \* bounds: samples reported, pictures sent

ASSUME UplinkAssumption ==
  /\ IsFiniteSet(Reporters) /\ {"net", "ui"} \subseteq Mailboxes
  /\ SAMPLE_INFO_ARRAY_MAX \in Nat \ {0}
  /\ MaxSamples \in Nat /\ MaxPictures \in Nat

VARIABLES
  g_conn_state,              \* NetLink's; here it may change at any time
  g_ui_socket_state,
  g_sample_ability, sample_send_process,
  sample_info_array,         \* which sample each entry holds; the last stands
                             \* for the memory behind the array
  sample_info_array_index,
  g_img_ability,
  g_net_send_img_buf,        \* the picture it holds
  reports,                   \* where each reporter is in NET_UL(0x45530101)
  picture,                   \* and image_send_tsk in NET_UL(0x45530102)
  sending,                   \* what net_send_tsk and ui_send_tsk hold
  samples, pictures,         \* how many so far
  lost,                      \* reports given up for want of a message
  overlap                    \* two reports have been under way at once

conns == <<g_conn_state, g_ui_socket_state>>
claims == <<g_sample_ability, sample_send_process>>
ring == <<sample_info_array, sample_info_array_index>>
image == <<g_net_send_img_buf, picture, pictures>>
ghosts == <<samples, lost, overlap>>
upVars == <<conns, claims, ring, g_img_ability, image, reports, sending, ghosts>>

Nothing == Message("none", 0, 0, 0)

UplinkTypeOK ==
  /\ {g_conn_state, g_ui_socket_state, g_sample_ability, g_img_ability, overlap}
       \subseteq BOOLEAN
  /\ sample_send_process \in 0 .. MaxSamples
  /\ sample_info_array \in [0 .. SAMPLE_INFO_ARRAY_MAX -> 0 .. MaxSamples]
  /\ sample_info_array_index \in 0 .. SAMPLE_INFO_ARRAY_MAX
  /\ g_net_send_img_buf \in 0 .. MaxPictures

UplinkInit ==
  /\ g_conn_state = TRUE /\ g_ui_socket_state = TRUE
  /\ g_sample_ability = TRUE /\ sample_send_process = 0
  /\ sample_info_array = [i \in 0 .. SAMPLE_INFO_ARRAY_MAX |-> 0]
  /\ sample_info_array_index = 0
  /\ g_img_ability = TRUE /\ g_net_send_img_buf = 0
  /\ reports = [r \in Reporters |-> [at |-> "idle", id |-> 0, ref |-> 0]]
  /\ picture = "idle"
  /\ sending = [b \in {"net", "ui"} |-> Nothing]
  /\ samples = 0 /\ pictures = 0 /\ lost = 0 /\ overlap = FALSE

\* The connections of NetLink and of ui_socket.c come and go.
LinkChanges ==
  /\ g_conn_state' = ~g_conn_state
  /\ UNCHANGED <<poolVars, g_ui_socket_state, claims, ring, g_img_ability, image,
                 reports, sending, ghosts>>

UiLinkChanges ==
  /\ g_ui_socket_state' = ~g_ui_socket_state
  /\ UNCHANGED <<poolVars, g_conn_state, claims, ring, g_img_ability, image, reports,
                 sending, ghosts>>

-----------------------------------------------------------------------------
(* msg->finish, run by msg_factory_recycle *)

allow_send_sample_too_soon ==
  LET n == sample_send_process - 1 IN
  IF sample_send_process = 0 THEN UNCHANGED claims
  ELSE /\ sample_send_process' = n
       /\ g_sample_ability' = (g_sample_ability \/ n <= SAMPLE_INFO_ARRAY_MAX)

allow_send_sample_uncounted ==
  g_sample_ability' = (g_sample_ability \/ sample_send_process < SAMPLE_INFO_ARRAY_MAX)
  /\ UNCHANGED sample_send_process

allow_send_sample ==
  LET n == sample_send_process - 1 IN
  IF sample_send_process = 0 THEN UNCHANGED claims
  ELSE /\ sample_send_process' = n
       /\ g_sample_ability' = (g_sample_ability \/ n < SAMPLE_INFO_ARRAY_MAX)

allow_send_image == g_img_ability' = TRUE

Finish(m) ==
  /\ IF m.kind = "sample" THEN allow_send_sample
     ELSE UNCHANGED claims
  /\ IF m.kind = "picture" THEN allow_send_image ELSE UNCHANGED g_img_ability

\* mailbox_timedpost of a message at hand: its deadline is long past, so that a
\* full mailbox refuses it at once and the message is recycled.
TimedPost(b, m) ==
  IF Room(b) THEN Queued(b, m) /\ UNCHANGED <<free, claims, g_img_ability>>
  ELSE Recycled /\ Finish(m) /\ UNCHANGED box

-----------------------------------------------------------------------------
(* NET_UL(0x45530101): samples *)

Goes(r, at) == reports' = [reports EXCEPT ![r].at = at]

\* A sample and the first tests; the ability is read without its mutex.  A sample
\* that may not be reported is released at once.
SampleCheck(r) ==
  /\ reports[r].at = "idle" /\ samples < MaxSamples
  /\ samples' = samples + 1
  /\ IF g_conn_state /\ g_sample_ability
     THEN /\ reports' = [reports EXCEPT ![r] = [at |-> "claim", id |-> samples + 1, ref |-> 0]]
          /\ overlap' = (overlap \/ \E q \in Reporters \ {r} : reports[q].at # "idle")
     ELSE UNCHANGED <<reports, overlap>>
  /\ UNCHANGED <<poolVars, conns, claims, ring, g_img_ability, image, sending, lost>>

SampleClaim(r) ==
  /\ reports[r].at = "claim" /\ Goes(r, "produce")
  /\ sample_send_process' = sample_send_process + 1
  /\ g_sample_ability' =
       (g_sample_ability /\ sample_send_process + 1 < SAMPLE_INFO_ARRAY_MAX)
  /\ UNCHANGED <<poolVars, conns, ring, g_img_ability, image, sending, ghosts>>

\* Without a message the report ends here; its claim stays.
SampleProduce(r) ==
  /\ reports[r].at = "produce"
  /\ IF Empty THEN Goes(r, "idle") /\ lost' = lost + 1 /\ UNCHANGED free
     ELSE Goes(r, "copy") /\ Produced /\ UNCHANGED lost
  /\ UNCHANGED <<bufs, box, conns, claims, ring, g_img_ability, image, sending,
                 samples, overlap>>

SampleCopy(r) ==
  /\ reports[r].at = "copy" /\ Goes(r, "address")
  /\ sample_info_array' = [sample_info_array EXCEPT ![sample_info_array_index] = reports[r].id]
  /\ UNCHANGED <<poolVars, conns, claims, sample_info_array_index, g_img_ability,
                 image, sending, ghosts>>

\* The index is read again for the address and then moves on.  Past the end of
\* the array it has gone no further than by one, unless two reports overlap.
SampleAddress(r) ==
  /\ reports[r].at = "address"
  /\ reports' = [reports EXCEPT ![r].at = "wrap", ![r].ref = sample_info_array_index]
  /\ sample_info_array_index' =
       IF sample_info_array_index < SAMPLE_INFO_ARRAY_MAX
       THEN sample_info_array_index + 1 ELSE sample_info_array_index
  /\ UNCHANGED <<poolVars, conns, claims, sample_info_array, g_img_ability, image,
                 sending, ghosts>>

SampleWrap(r) ==
  /\ reports[r].at = "wrap" /\ Goes(r, "post")
  /\ sample_info_array_index' =
       IF sample_info_array_index >= SAMPLE_INFO_ARRAY_MAX THEN 0
       ELSE sample_info_array_index
  /\ UNCHANGED <<poolVars, conns, claims, sample_info_array, g_img_ability, image,
                 sending, ghosts>>

SamplePost(r) ==
  /\ reports[r].at = "post" /\ Goes(r, "idle")
  /\ TimedPost("net", Message("sample", 5, reports[r].ref, reports[r].id))
  /\ UNCHANGED <<bufs, conns, ring, image, sending, ghosts>>

ReportStep(r) ==
  \/ SampleClaim(r) \/ SampleProduce(r) \/ SampleCopy(r) \/ SampleAddress(r)
  \/ SampleWrap(r) \/ SamplePost(r)

-----------------------------------------------------------------------------
(* NET_UL(0x45530102): pictures, from image_send_tsk alone *)

PictureCheckUnasked ==
  /\ picture = "idle" /\ pictures < MaxPictures
  /\ pictures' = pictures + 1
  /\ picture' = IF g_conn_state THEN "claim" ELSE "idle"
  /\ UNCHANGED <<poolVars, conns, claims, ring, g_img_ability, g_net_send_img_buf,
                 reports, sending, ghosts>>

PictureCheck ==
  /\ picture = "idle" /\ pictures < MaxPictures
  /\ pictures' = pictures + 1
  /\ picture' = IF g_conn_state /\ g_img_ability THEN "claim" ELSE "idle"
  /\ UNCHANGED <<poolVars, conns, claims, ring, g_img_ability, g_net_send_img_buf,
                 reports, sending, ghosts>>

PictureClaim ==
  /\ picture = "claim" /\ picture' = "produce" /\ g_img_ability' = FALSE
  /\ UNCHANGED <<poolVars, conns, claims, ring, g_net_send_img_buf, pictures,
                 reports, sending, ghosts>>

\* Without a message the picture is dropped and the ability given back.
PictureProduce ==
  /\ picture = "produce"
  /\ IF Empty THEN picture' = "idle" /\ allow_send_image /\ UNCHANGED free
     ELSE picture' = "copy" /\ Produced /\ UNCHANGED g_img_ability
  /\ UNCHANGED <<bufs, box, conns, claims, ring, g_net_send_img_buf, pictures,
                 reports, sending, ghosts>>

PictureCopy ==
  /\ picture = "copy" /\ picture' = "post"
  /\ g_net_send_img_buf' = pictures
  /\ UNCHANGED <<poolVars, conns, claims, ring, g_img_ability, pictures, reports,
                 sending, ghosts>>

PicturePost ==
  /\ picture = "post" /\ picture' = "idle"
  /\ TimedPost("net", Message("picture", 3, 0, pictures))
  /\ UNCHANGED <<bufs, conns, ring, g_net_send_img_buf, pictures, reports, sending, ghosts>>

PictureStep == PictureClaim \/ PictureProduce \/ PictureCopy \/ PicturePost

-----------------------------------------------------------------------------
(* the other uploads, which point at static data *)

\* Lengths, statistics and feedback test what msg_factory_produce returned.
CheckedUpload ==
  /\ g_conn_state
  /\ IF Empty THEN UNCHANGED <<free, box>>
     ELSE Posted("net", Message("upload", 1, 0, 0))
  /\ UNCHANGED <<bufs, upVars>>

\* Settings asked for by the PC, and the uploads to the UI, do not: without a
\* message the thread writes through NULL and the process dies.
UncheckedUpload ==
  /\ g_conn_state /\ ~Empty
  /\ Posted("net", Message("upload", 1, 0, 0)) /\ UNCHANGED <<bufs, upVars>>

UiUpload ==
  /\ g_ui_socket_state /\ ~Empty
  /\ Posted("ui", Message("upload", 0, 0, 0)) /\ UNCHANGED <<bufs, upVars>>

UploadFaults == Empty /\ (g_conn_state \/ g_ui_socket_state)

-----------------------------------------------------------------------------
(* net_send_tsk and ui_send_tsk *)

SenderPends(b) ==
  /\ sending[b] = Nothing /\ Pending(b) /\ Received(b)
  /\ sending' = [sending EXCEPT ![b] = Head(box[b])]
  /\ UNCHANGED <<free, bufs, conns, claims, ring, g_img_ability, image, reports, ghosts>>

\* The link is off, every part has been sent, or a send failed.
SenderRecycles(b) ==
  /\ sending[b] # Nothing
  /\ Recycled /\ Finish(sending[b])
  /\ sending' = [sending EXCEPT ![b] = Nothing]
  /\ UNCHANGED <<bufs, box, conns, ring, image, reports, ghosts>>

-----------------------------------------------------------------------------
(* properties *)

\* Messages that threads of this module hold outside the pool and the mailboxes.
UplinkHolds ==
  Cardinality({r \in Reporters : reports[r].at \in {"copy", "address", "wrap", "post"}})
  + (IF picture \in {"copy", "post"} THEN 1 ELSE 0)
  + Cardinality({b \in {"net", "ui"} : sending[b] # Nothing})

\* Messages on their way to the PC: queued, or being sent.
OnTheWay == {box["net"][i] : i \in DOMAIN box["net"]} \cup ({sending["net"]} \ {Nothing})

\* sample_send_process counts every report under way, from its claim to the
\* recycling of its message, and those given up for want of a message, which
\* nothing takes back; the ability says whether it leaves room in the ring.
ClaimsExact ==
  /\ sample_send_process =
       lost + Cardinality(InBox("net", {"sample"}))
       + Cardinality({r \in Reporters : reports[r].at \notin {"idle", "claim"}})
       + (IF sending["net"].kind = "sample" THEN 1 ELSE 0)
  /\ g_sample_ability <=> sample_send_process < SAMPLE_INFO_ARRAY_MAX

\* What the PC is sent is what was reported: an entry of the ring is not written
\* again before its message has been sent, as long as no two threads report at
\* once, and the picture buffer never is.
UploadsIntact ==
  \A m \in OnTheWay :
    /\ m.kind = "sample" /\ ~overlap =>
         m.ref < SAMPLE_INFO_ARRAY_MAX /\ sample_info_array[m.ref] = m.id
    /\ m.kind = "picture" => g_net_send_img_buf = m.id
=============================================================================
