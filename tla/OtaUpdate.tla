------------------------------ MODULE OtaUpdate ------------------------------
(***************************************************************************)
(* The over-the-air update: requested by system.ota() through two bytes of  *)
(* RTC memory, dispatched by app_main() (main.c) after a deep-sleep wake,    *)
(* carried out by badge_ota_task() (badge_ota.c) and finished by a restart   *)
(* into the new partition.                                                   *)
(*                                                                           *)
(* The HTTP response is a sequence of units: a line is a token followed by   *)
(* "nl" (its CR LF pair), the body is a sequence of blocks.  The buffer, the *)
(* reads of any size, the left-over data that is moved to its front and the  *)
(* flash writes are those of the code.  Power may be lost at any step.       *)
(***************************************************************************)
EXTENDS Integers, Sequences, SequencesExt, FiniteSets

CONSTANTS
  Responses,   \* what the server may answer: [head, length, body]
  BufSize,     \* sizeof(buffer)
  PartSize,    \* part_update->size
  MaxFaults    \* bound on power losses and WiFi disconnects

\* A buffer of 1 kB and partitions of more than a megabyte.
ASSUME SizeAssumption ==
  /\ BufSize \in Nat \ {0} /\ PartSize \in Nat /\ BufSize <= PartSize
  /\ MaxFaults \in Nat

\* A head ends at its first empty line.  The body may be shorter or longer than
\* the length that was announced for it.
ASSUME ResponseAssumption ==
  /\ Responses \subseteq [head : Seq(STRING), length : Int, body : Seq(STRING)]
  /\ \A r \in Responses :
       /\ Len(r.head) > 1
       /\ \A i \in 1 .. Len(r.head) - 1 :
            r.head[i] = "nl" /\ r.head[i + 1] = "nl" <=> i = Len(r.head) - 1

NoLength == -1            \* content_length before its header was seen
Factory  == <<"factory">> \* the image both partitions start with
Parts    == {0, 1}
Modes    == {1, 3}        \* update, production test

VARIABLES
  phase,    \* where the badge is: Python, or a step of badge_ota_task()
  rtc,      \* rtcmemcontents[0] and [1]
  asked,    \* history: the mode whose two bytes were both written, 0 if none
  link,     \* CONNECTED_BIT of wifi_event_group
  resp,     \* the response the server is sending
  net,      \* the part of it that has not been read yet
  buffer,   \* buffer[0 .. buffer_len - 1]
  clen,     \* content_length
  cpos,     \* content_pos
  image,    \* contents of the two app partitions
  boot,     \* the partition otadata selects
  running,  \* the partition the badge runs from
  faults    \* power losses and disconnects so far

vars == <<phase, rtc, asked, link, resp, net, buffer, clen, cpos, image, boot, running, faults>>

ram   == <<resp, net, buffer, clen, cpos>>
flash == <<image, boot, running>>

OtaPhases == {"wifi", "connect", "request", "status", "headers", "begin", "body", "end", "set_boot"}
Phases == {"app_main", "python", "half", "armed", "first_run"} \cup OtaPhases

\* esp_ota_get_next_update_partition(NULL): the one that is not running.
part_update == 1 - running

Init ==
  /\ phase = "app_main"
  /\ rtc = <<0, 0>>
  /\ asked = 0
  /\ link = FALSE
  /\ resp \in Responses
  /\ net = <<>> /\ buffer = <<>> /\ clen = NoLength /\ cpos = 0
  /\ image = [p \in Parts |-> Factory]
  /\ boot = 0 /\ running = 0
  /\ faults = 0

-----------------------------------------------------------------------------
(* Boot and request. *)

\* A restart: the bootloader starts the selected partition and all RAM is fresh.
\* RTC memory survives a wake from deep sleep; any other reset reloads it with
\* its initial zeros.
Restart(deepsleep) ==
  /\ phase' = "app_main"
  /\ running' = boot
  /\ rtc' = IF deepsleep THEN rtc ELSE <<0, 0>>
  /\ asked' = IF deepsleep THEN asked ELSE 0
  /\ link' = FALSE
  /\ resp' \in Responses
  /\ net' = <<>> /\ buffer' = <<>> /\ clen' = NoLength /\ cpos' = 0

\* Believes the first byte alone.
Magic_NoInverse == rtc[1]

\* The mode byte, if its complement vouches for it; 0 is no mode.
Magic == IF rtc[2] = 255 - rtc[1] THEN rtc[1] ELSE 0

\* app_main(): dispatch on the mode byte; Python's boot.py clears it.
app_main ==
  /\ phase = "app_main"
  /\ CASE Magic = 1 -> phase' = "wifi" /\ UNCHANGED <<rtc, asked>>
       [] Magic = 3 -> phase' = "first_run" /\ UNCHANGED <<rtc, asked>>
       [] OTHER     -> phase' = "python" /\ rtc' = <<0, 0>> /\ asked' = 0
  /\ UNCHANGED <<link, ram, flash, faults>>

\* system.ota(): the mode byte (1, or 3 for the production test, which is written
\* the same way), its complement, and a deep sleep of 2 ms.
system_ota_first ==
  /\ phase = "python"
  /\ phase' = "half"
  /\ \E m \in Modes : rtc' = <<m, rtc[2]>>
  /\ UNCHANGED <<asked, link, ram, flash, faults>>

system_ota_second ==
  /\ phase = "half"
  /\ phase' = "armed"
  /\ rtc' = <<rtc[1], 255 - rtc[1]>>
  /\ asked' = rtc[1]
  /\ UNCHANGED <<link, ram, flash, faults>>

reboot ==
  /\ phase = "armed"
  /\ Restart(TRUE)
  /\ UNCHANGED <<image, boot, faults>>

\* The back button's callback may run between any two Python statements.
back_button ==
  /\ phase \in {"python", "half", "armed"}
  /\ faults < MaxFaults
  /\ faults' = faults + 1
  /\ Restart(TRUE)
  /\ UNCHANGED <<image, boot>>

\* badge_first_run() ends in a loop that shows the test result until the badge is
\* switched off.
SwitchOff ==
  /\ phase = "first_run"
  /\ Restart(FALSE)
  /\ UNCHANGED <<image, boot, faults>>

\* Power is lost (or the chip panics) anywhere.
PowerLoss ==
  /\ faults < MaxFaults
  /\ faults' = faults + 1
  /\ Restart(FALSE)
  /\ UNCHANGED <<image, boot>>

-----------------------------------------------------------------------------
(* WiFi and the connection. *)

\* badge_ota_event_handler(): the event task sets and clears CONNECTED_BIT.
GotIp ==
  /\ phase \in OtaPhases /\ ~link
  /\ link' = TRUE
  /\ UNCHANGED <<phase, rtc, asked, ram, flash, faults>>

Disconnected ==
  /\ phase \in OtaPhases /\ link
  /\ faults < MaxFaults
  /\ faults' = faults + 1
  /\ link' = FALSE
  /\ UNCHANGED <<phase, rtc, asked, ram, flash>>

Goto(p) == phase' = p /\ UNCHANGED <<rtc, asked, link>>

\* xEventGroupWaitBits(..., portMAX_DELAY), before and after the TLS set-up.
WaitConnected ==
  /\ phase \in {"wifi", "connect"} /\ link
  /\ Goto(IF phase = "wifi" THEN "connect" ELSE "request")
  /\ UNCHANGED <<ram, flash, faults>>

\* Connect, handshake, verify, send the request: the server starts to answer.
Request ==
  /\ phase = "request" /\ link
  /\ Goto("status")
  /\ net' = resp.head \o resp.body
  /\ UNCHANGED <<resp, buffer, clen, cpos, flash, faults>>

\* Goes through deep sleep, as reboot() does.
task_fatal_error_DeepSleep ==
  /\ Restart(TRUE)
  /\ UNCHANGED <<image, boot, faults>>

\* task_fatal_error(): esp_restart().
task_fatal_error ==
  /\ Restart(FALSE)
  /\ UNCHANGED <<image, boot, faults>>

\* The inner loop of the download still wants data.
WantsBody == cpos < clen /\ cpos + Len(buffer) < clen /\ Len(buffer) < BufSize

\* Takes a closed connection for the end of the body.
NetworkFails_EofIsEnd ==
  /\ phase = "body" /\ WantsBody /\ net = <<>>
  /\ Goto("end")
  /\ UNCHANGED <<ram, flash, faults>>

\* The updater is in a call that waits for the server: connect and handshake, or
\* mbedtls_ssl_read_() for the rest of a line or for more of the body.
AtServer ==
  \/ phase = "request"
  \/ phase \in {"status", "headers"} /\ ~Contains(buffer, "nl") /\ Len(buffer) < BufSize
  \/ phase = "body" /\ WantsBody

\* A TLS or network call fails, or the server has closed the connection.
NetworkFails ==
  /\ AtServer
  /\ task_fatal_error

-----------------------------------------------------------------------------
(* The HTTP response. *)

\* mbedtls_ssl_read_() of at most n units into the buffer.
Read(n) ==
  /\ link /\ net # <<>>
  /\ \E k \in 1 .. n :
       /\ k <= Len(net)
       /\ buffer' = buffer \o SubSeq(net, 1, k)
       /\ net' = SubSeq(net, k + 1, Len(net))
  /\ UNCHANGED <<phase, rtc, asked, link, resp, clen, cpos, flash, faults>>

HasLine == Contains(buffer, "nl")
Line    == SubSeq(buffer, 1, SelectInSeq(buffer, LAMBDA u : u = "nl") - 1)

\* What memmove() puts at the front of the buffer after a line.
LeftOver == SubSeq(buffer, Len(Line) + 2, Len(buffer))

\* Reads a whole buffer's worth behind what the buffer already holds.
ReadLine_NoRoom ==
  /\ phase \in {"status", "headers"} /\ ~HasLine
  /\ Len(buffer) < BufSize
  /\ Read(BufSize)

\* Reading until the buffer holds a line; a full buffer without one is fatal.
ReadLine ==
  /\ phase \in {"status", "headers"} /\ ~HasLine
  /\ Len(buffer) < BufSize
  /\ Read(BufSize - Len(buffer))

LineTooLong ==
  /\ phase \in {"status", "headers"} /\ ~HasLine
  /\ Len(buffer) = BufSize
  /\ task_fatal_error

StatusLine ==
  /\ phase = "status" /\ HasLine
  /\ IF Line = <<"200">>
     THEN /\ Goto("headers")
          /\ buffer' = LeftOver
          /\ UNCHANGED <<resp, net, clen, cpos, flash, faults>>
     ELSE task_fatal_error

\* A header line; the empty one ends the headers, a negative length is fatal.
HeaderLine ==
  /\ phase = "headers" /\ HasLine
  /\ IF Line = <<"length">> /\ resp.length < 0
     THEN task_fatal_error
     ELSE /\ clen' = IF Line = <<"length">> THEN resp.length ELSE clen
          /\ buffer' = LeftOver
          /\ Goto(IF Line = <<>> THEN "begin" ELSE "headers")
          /\ UNCHANGED <<resp, net, cpos, flash, faults>>

\* esp_ota_begin() erases the partition, if there is a length that fits.
Begin ==
  /\ phase = "begin"
  /\ clen # NoLength /\ clen <= PartSize
  /\ Goto("body")
  /\ image' = [image EXCEPT ![part_update] = <<>>]
  /\ UNCHANGED <<ram, boot, running, faults>>

NoFit ==
  /\ phase = "begin"
  /\ clen = NoLength \/ clen > PartSize
  /\ task_fatal_error

\* The inner loop: fill the buffer, but not beyond content_length.
BodyRead ==
  /\ phase = "body" /\ WantsBody
  /\ LET need == clen - cpos - Len(buffer)
         room == BufSize - Len(buffer)
     IN Read(IF need > room THEN room ELSE need)

\* The end of the outer loop.
BodyEnd == cpos >= clen

\* The buffer is full or holds the last part: write it to flash.
BodyWrite ==
  /\ phase = "body" /\ ~BodyEnd
  /\ ~WantsBody
  /\ image' = [image EXCEPT ![part_update] = @ \o buffer]
  /\ cpos' = cpos + Len(buffer)
  /\ buffer' = <<>>
  /\ UNCHANGED <<phase, rtc, asked, link, resp, net, clen, boot, running, faults>>

BodyDone ==
  /\ phase = "body" /\ BodyEnd
  /\ Goto("end")
  /\ UNCHANGED <<ram, flash, faults>>

\* esp_ota_begin(), esp_ota_write(), esp_ota_end() or
\* esp_ota_set_boot_partition() reports an error.
FlashFails ==
  /\ phase \in {"begin", "body", "end", "set_boot"}
  /\ phase = "body" => ~BodyEnd
  /\ faults < MaxFaults
  /\ faults' = faults + 1
  /\ Restart(FALSE)
  /\ UNCHANGED <<image, boot>>

\* esp_ota_end() refuses an image nothing was written of.
OtaEnd ==
  /\ phase = "end"
  /\ IF image[part_update] = <<>>
     THEN task_fatal_error
     ELSE Goto("set_boot") /\ UNCHANGED <<ram, flash, faults>>

\* esp_ota_set_boot_partition() and esp_restart().
SetBoot ==
  /\ phase = "set_boot"
  /\ boot' = part_update
  /\ running' = part_update
  /\ phase' = "app_main" /\ rtc' = <<0, 0>> /\ asked' = 0 /\ link' = FALSE
  /\ resp' \in Responses
  /\ net' = <<>> /\ buffer' = <<>> /\ clen' = NoLength /\ cpos' = 0
  /\ UNCHANGED <<image, faults>>

\* What the updater does by itself, without waiting for the network.
Proceed ==
  \/ WaitConnected \/ LineTooLong \/ StatusLine \/ HeaderLine
  \/ Begin \/ NoFit \/ BodyWrite \/ BodyDone \/ OtaEnd \/ SetBoot

Next ==
  \/ app_main \/ system_ota_first \/ system_ota_second \/ reboot
  \/ back_button \/ SwitchOff \/ PowerLoss \/ GotIp \/ Disconnected \/ FlashFails
  \/ WaitConnected \/ Request \/ NetworkFails
  \/ ReadLine \/ LineTooLong \/ StatusLine \/ HeaderLine
  \/ Begin \/ NoFit \/ BodyRead \/ BodyWrite \/ BodyDone \/ OtaEnd \/ SetBoot

\* app_main() and the OTA task are scheduled.  Nothing is assumed of the access
\* point and the server: they may never answer, and the code sets no timeout.
\* The application is free to never ask for an update.
Fairness == WF_vars(app_main) /\ WF_vars(Proceed)

Spec == Init /\ [][Next]_vars /\ Fairness

-----------------------------------------------------------------------------
(* Properties. *)

TypeOK ==
  /\ phase \in Phases
  /\ rtc \in {0, 1, 3} \X {0, 252, 254}
  /\ asked \in Modes \cup {0} /\ link \in BOOLEAN
  /\ resp \in Responses
  /\ Len(buffer) <= BufSize
  /\ cpos <= PartSize
  /\ boot \in Parts /\ running \in Parts
  /\ faults \in 0 .. MaxFaults

\* The answers that carry as many blocks as they announce, or more.
Complete == {r \in Responses : r.length > 0 /\ Len(r.body) >= r.length}

\* What the partition holds after such an answer: the blocks announced, or, if
\* those are less than a buffer, all that came in one buffer with the headers.
Installed(r) ==
  {SubSeq(r.body, 1, n) :
     n \in {k \in r.length .. Len(r.body) : k = r.length \/ k < BufSize}}

\* The promise of an update, seen in this state: the image of the partition the
\* bootloader will start, and a request whose two bytes are both written.
Promise == INSTANCE UpdatePromise WITH
  Images    <- UNION {Installed(r) : r \in Complete},
  installed <- image[boot],
  pending   <- (asked = 1)

(* The update implements UpdatePromise: whatever fails and whenever power is *)
(* lost, the image the badge starts changes in one step, on a request, and   *)
(* to every announced block, in order, of a body the server sent completely: *)
(* no block is lost between headers and body, at the buffer's edge or at a   *)
(* short read (badge_ota.c:427-532), none is added unless the body announced *)
(* is shorter than the buffer, and otadata is only switched afterwards.      *)
UpdateIsAtomic == Promise!Spec

(* The badge only enters the updater or the production test if both bytes of *)
(* that request were written: a reboot between the two writes of             *)
(* system.ota() is not taken for a request (main.c:43).                      *)
OnlyIfAsked ==
  /\ phase \in OtaPhases => asked = 1
  /\ phase = "first_run" => asked = 3

\* The waits that have no timeout: for an address, and for the server.
AwaitsNetwork == (phase \in {"wifi", "connect"} /\ ~link) \/ AtServer

(* An update that does not wait for the network for ever (badge_ota.c:333,   *)
(* 338-352, 400, 445, 508, none of them with a timeout) ends: the badge is   *)
(* back in Python, with the new image or the old one, and a failed update is *)
(* not started over and over.                                                *)
OtaEnds == []<>~AwaitsNetwork => (phase \in OtaPhases ~> phase = "python")

=============================================================================
