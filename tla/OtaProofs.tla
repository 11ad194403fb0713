------------------------------ MODULE OtaProofs ------------------------------
(***************************************************************************)
(* The updater and the production test run only if they were asked for,    *)
(* and the update keeps the promise of UpdatePromise, for every server,    *)
(* buffer, partition and number of faults.                                 *)
(*                                                                         *)
(* OnlyIfAsked speaks of the moment after the dispatch; what makes it true *)
(* is the state of the two RTC bytes at every restart before it (RtcOK).   *)
(* The promise speaks of the partition that otadata selects; what makes it *)
(* true is that flash, buffer and network are, throughout the download,    *)
(* adjoining slices of what the server sends (StreamInv).                  *)
(***************************************************************************)
EXTENDS OtaUpdate, SequenceTheorems, WellFoundedInduction, TLAPS

(* The two bytes are a complete request, or cannot be taken for one. *)
Asked(m) == rtc = <<m, 255 - m>> /\ asked = m
NoRequest == rtc \in {<<0, 0>>, <<1, 0>>, <<3, 0>>} /\ asked = 0

RtcOK ==
  /\ \/ NoRequest
     \/ \E m \in Modes : Asked(m)
  /\ phase = "python" => rtc = <<0, 0>>
  /\ phase = "half" => rtc[1] \in Modes /\ rtc[2] = 0
  /\ phase \in OtaPhases => Asked(1)
  /\ phase = "first_run" => Asked(3)

(* A restart, with or without the RTC memory, keeps the bytes in order. *)
LEMMA RestartKeeps ==
  ASSUME RtcOK, NEW d \in BOOLEAN, Restart(d)
  PROVE  RtcOK'
BY DEF RtcOK, Asked, NoRequest, Restart, Modes, OtaPhases

(* Steps within the updater that leave the bytes alone. *)
LEMMA StaysInOta ==
  ASSUME RtcOK, phase \in OtaPhases, phase' \in OtaPhases, UNCHANGED <<rtc, asked>>
  PROVE  RtcOK'
BY DEF RtcOK, Asked, NoRequest, Modes, OtaPhases

LEMMA RtcStep == RtcOK /\ [Next]_vars => RtcOK'
<1> SUFFICES ASSUME RtcOK, [Next]_vars PROVE RtcOK'
  OBVIOUS
<1>1. CASE app_main
  <2>1. CASE NoRequest
    <3>1. Magic = 0
      BY <2>1 DEF NoRequest, Magic
    <3> QED BY <1>1, <3>1 DEF app_main, RtcOK, NoRequest, OtaPhases
  <2>2. ASSUME NEW m \in Modes, Asked(m) PROVE RtcOK'
    <3>1. Magic = m
      BY <2>2 DEF Asked, Magic, Modes
    <3> QED BY <1>1, <2>2, <3>1 DEF app_main, RtcOK, Asked, Modes, OtaPhases
  <2> QED BY <2>1, <2>2 DEF RtcOK
<1>2. CASE system_ota_first
  BY <1>2 DEF system_ota_first, RtcOK, Asked, NoRequest, Modes, OtaPhases
<1>3. CASE system_ota_second
  BY <1>3 DEF system_ota_second, RtcOK, Asked, NoRequest, Modes, OtaPhases
<1>4. CASE reboot \/ back_button \/ SwitchOff \/ PowerLoss \/ FlashFails
  BY <1>4, RestartKeeps DEF reboot, back_button, SwitchOff, PowerLoss, FlashFails
<1>5. CASE GotIp \/ Disconnected
  BY <1>5, StaysInOta DEF GotIp, Disconnected
<1>6. CASE WaitConnected \/ Request \/ HeaderLine \/ StatusLine \/ Begin \/ BodyDone \/ OtaEnd
  BY <1>6, RestartKeeps, StaysInOta
     DEF WaitConnected, Request, HeaderLine, StatusLine, Begin, BodyDone, OtaEnd,
         task_fatal_error, Goto, OtaPhases
<1>7. CASE NetworkFails \/ LineTooLong \/ NoFit
  BY <1>7, RestartKeeps DEF NetworkFails, LineTooLong, NoFit, task_fatal_error
<1>8. CASE ReadLine \/ BodyRead \/ BodyWrite
  BY <1>8, StaysInOta DEF ReadLine, BodyRead, BodyWrite, Read, OtaPhases
<1>9. CASE SetBoot
  BY <1>9 DEF SetBoot, RtcOK, Asked, NoRequest, OtaPhases
<1>10. CASE UNCHANGED vars
  BY <1>10 DEF vars, RtcOK, Asked, NoRequest
<1> QED BY <1>1, <1>2, <1>3, <1>4, <1>5, <1>6, <1>7, <1>8, <1>9, <1>10 DEF Next

(* The badge only enters the updater or the production test if both bytes  *)
(* of that request were written (main.c:40-43, system.py:76-83), whatever  *)
(* restarts, power losses and failures happened before.                    *)
THEOREM UpdatesAreAskedFor == Spec => []OnlyIfAsked
<1>1. Init => RtcOK
  BY DEF Init, RtcOK, NoRequest, OtaPhases
<1>2. RtcOK => OnlyIfAsked
  BY DEF RtcOK, Asked, OnlyIfAsked
<1> QED BY <1>1, RtcStep, <1>2, PTL DEF Spec

-----------------------------------------------------------------------------
(* The response, in slices. *)

(* Everything the server sends, and the buffer and the network as two      *)
(* adjoining slices of it that begin behind the n units already used.      *)
Sent == resp.head \o resp.body

StreamAt(n) ==
  /\ n + Len(buffer) <= Len(Sent)
  /\ buffer = SubSeq(Sent, n + 1, n + Len(buffer))
  /\ net = SubSeq(Sent, n + Len(buffer) + 1, Len(Sent))

Shape ==
  /\ resp \in Responses
  /\ buffer \in Seq(STRING) /\ net \in Seq(STRING)
  /\ Len(buffer) <= BufSize
  /\ clen \in Int /\ cpos \in Int
  /\ boot \in Parts /\ running = boot
  /\ image = [p \in Parts |-> image[p]]

(* A slice of a slice is a slice of the whole. *)
LEMMA SliceOfSlice ==
  ASSUME NEW s \in Seq(STRING), NEW a \in Nat, NEW b \in Nat, a <= b, b <= Len(s),
         NEW i \in Nat, NEW j \in Nat, i <= j, j <= b - a
  PROVE  SubSeq(SubSeq(s, a + 1, b), i + 1, j) = SubSeq(s, a + i + 1, a + j)
<1> DEFINE t == SubSeq(s, a + 1, b)
           u == SubSeq(t, i + 1, j)
           v == SubSeq(s, a + i + 1, a + j)
<1>1. t \in Seq(STRING) /\ Len(t) = b - a /\ \A k \in 1 .. b - a : t[k] = s[a + k]
  OBVIOUS
<1>2. u \in Seq(STRING) /\ Len(u) = j - i /\ \A k \in 1 .. j - i : u[k] = t[i + k]
  <2> HIDE DEF t
  <2> QED BY <1>1
<1>3. v \in Seq(STRING) /\ Len(v) = j - i /\ \A k \in 1 .. j - i : v[k] = s[a + i + k]
  OBVIOUS
<1> HIDE DEF t, u, v
<1>4. ASSUME NEW k \in 1 .. Len(u) PROVE u[k] = v[k]
  <2>1. k \in 1 .. j - i /\ i + k \in 1 .. b - a /\ a + (i + k) = a + i + k
    BY <1>2
  <2>2. u[k] = t[i + k]
    BY <1>2, <2>1
  <2>3. t[i + k] = s[a + (i + k)]
    BY <1>1, <2>1
  <2>4. v[k] = s[a + i + k]
    BY <1>3, <2>1
  <2> QED BY <2>1, <2>2, <2>3, <2>4
<1>5. u = v
  BY <1>2, <1>3, <1>4, SeqEqual
<1> QED BY <1>5 DEF t, u, v

(* Two sequences joined: their lengths, their elements, and the second one *)
(* found again as a slice.                                                 *)
LEMMA JoinProperties ==
  ASSUME NEW s \in Seq(STRING), NEW t \in Seq(STRING)
  PROVE  /\ s \o t \in Seq(STRING)
         /\ Len(s) \in Nat /\ Len(t) \in Nat
         /\ Len(s \o t) = Len(s) + Len(t)
         /\ \A i \in 1 .. Len(s) : (s \o t)[i] = s[i]
         /\ SubSeq(s \o t, Len(s) + 1, Len(s \o t)) = t
<1> DEFINE u == s \o t
           w == SubSeq(u, Len(s) + 1, Len(u))
<1>1. /\ u \in Seq(STRING) /\ Len(u) = Len(s) + Len(t)
      /\ Len(s) \in Nat /\ Len(t) \in Nat
      /\ \A i \in 1 .. Len(s) : u[i] = s[i]
      /\ \A i \in 1 .. Len(t) : u[Len(s) + i] = t[i]
  OBVIOUS
<1> HIDE DEF u
<1>2. w \in Seq(STRING) /\ Len(w) = Len(t) /\ \A i \in 1 .. Len(t) : w[i] = u[Len(s) + i]
  BY <1>1
<1> HIDE DEF w
<1>3. w = t
  BY <1>1, <1>2, SeqEqual
<1> QED BY <1>1, <1>3 DEF u, w

(* What is sent is a sequence of the lengths of its two parts. *)
LEMMA SentProperties ==
  ASSUME resp \in Responses
  PROVE  /\ resp.head \in Seq(STRING) /\ resp.body \in Seq(STRING) /\ resp.length \in Int
         /\ Len(resp.head) \in Nat /\ Len(resp.head) > 1 /\ Len(resp.body) \in Nat
         /\ Sent \in Seq(STRING)
         /\ Len(Sent) = Len(resp.head) + Len(resp.body)
         /\ \A i \in 1 .. Len(resp.head) : Sent[i] = resp.head[i]
         /\ SubSeq(Sent, Len(resp.head) + 1, Len(Sent)) = resp.body
<1>1. /\ resp.head \in Seq(STRING) /\ resp.body \in Seq(STRING) /\ resp.length \in Int
      /\ Len(resp.head) > 1
  BY ResponseAssumption
<1> QED BY <1>1, JoinProperties DEF Sent

(* The first part of a sequence and the rest of it. *)
LEMMA SliceBounds ==
  ASSUME NEW s \in Seq(STRING), NEW n \in Nat, NEW e \in Nat, n <= e, e <= Len(s)
  PROVE  /\ SubSeq(s, n + 1, e) \in Seq(STRING) /\ Len(SubSeq(s, n + 1, e)) = e - n
         /\ SubSeq(s, e + 1, Len(s)) \in Seq(STRING)
         /\ Len(SubSeq(s, e + 1, Len(s))) = Len(s) - e
         /\ \A k \in 1 .. e - n : SubSeq(s, n + 1, e)[k] = s[n + k]
OBVIOUS

(* Taking the first k units of what is left and putting them behind what   *)
(* was taken moves the border between two slices by k.                     *)
LEMMA SliceMoves ==
  ASSUME NEW s \in Seq(STRING), NEW n \in Nat, NEW e \in Nat, n <= e, e <= Len(s),
         NEW k \in Nat, k <= Len(s) - e
  PROVE  LET taken == SubSeq(s, n + 1, e)
             left  == SubSeq(s, e + 1, Len(s))
         IN  /\ taken \in Seq(STRING) /\ Len(taken) = e - n
             /\ left \in Seq(STRING) /\ Len(left) = Len(s) - e
             /\ taken \o SubSeq(left, 1, k) = SubSeq(s, n + 1, e + k)
             /\ SubSeq(left, k + 1, Len(left)) = SubSeq(s, e + k + 1, Len(s))
<1> DEFINE N == Len(s)
           taken == SubSeq(s, n + 1, e)
           left == SubSeq(s, e + 1, N)
<1>1. N \in Nat
  OBVIOUS
<1>2. taken \in Seq(STRING) /\ Len(taken) = e - n /\ left \in Seq(STRING) /\ Len(left) = N - e
  OBVIOUS
<1>3. SubSeq(left, 0 + 1, k) = SubSeq(s, e + 0 + 1, e + k)
  BY <1>1, SliceOfSlice
<1>4. SubSeq(left, k + 1, N - e) = SubSeq(s, e + k + 1, e + (N - e))
  BY <1>1, SliceOfSlice
<1>5. SubSeq(s, n + 1, e) \o SubSeq(s, e + 1, e + k) = SubSeq(s, n + 1, e + k)
  BY <1>1, ConcatAdjacentSubSeq
<1>6. 0 + 1 = 1 /\ e + 0 + 1 = e + 1 /\ e + (N - e) = N
  BY <1>1
<1> HIDE DEF N, left
<1>7. taken \o SubSeq(left, 1, k) = SubSeq(s, n + 1, e + k)
  BY <1>3, <1>5, <1>6
<1>8. SubSeq(left, k + 1, Len(left)) = SubSeq(s, e + k + 1, N)
  BY <1>2, <1>4, <1>6
<1> QED BY <1>2, <1>7, <1>8 DEF N, left

(* mbedtls_ssl_read_() moves units from the network behind the buffer's    *)
(* contents and loses none (badge_ota.c:400, 445, 508).                    *)
LEMMA ReadKeepsStream ==
  ASSUME Shape, NEW n \in Nat, StreamAt(n),
         NEW m \in Int, m <= BufSize - Len(buffer), Read(m)
  PROVE  StreamAt(n)' /\ Len(buffer)' <= BufSize /\ Len(buffer)' >= Len(buffer)
         /\ Len(buffer)' - Len(buffer) <= m
         /\ buffer' \in Seq(STRING) /\ net' \in Seq(STRING)
<1>1. PICK k \in 1 .. m : /\ k <= Len(net)
                          /\ buffer' = buffer \o SubSeq(net, 1, k)
                          /\ net' = SubSeq(net, k + 1, Len(net))
  BY DEF Read
<1>2. resp' = resp /\ Sent' = Sent
  BY DEF Read, Sent
<1>3. /\ Sent \in Seq(STRING) /\ Len(Sent) \in Nat
      /\ buffer \in Seq(STRING) /\ Len(buffer) \in Nat /\ net \in Seq(STRING)
  BY SentProperties DEF Shape
<1> DEFINE e == n + Len(buffer)
<1>4. /\ e \in Nat /\ n <= e /\ e <= Len(Sent)
      /\ buffer = SubSeq(Sent, n + 1, e) /\ net = SubSeq(Sent, e + 1, Len(Sent))
  BY <1>3 DEF StreamAt
<1> HIDE DEF e
<1>5. Len(net) = Len(Sent) - e
  BY <1>3, <1>4, SliceMoves
<1>6. k \in Nat /\ k <= Len(Sent) - e
  BY <1>1, <1>5
<1>7. buffer' = SubSeq(Sent, n + 1, e + k) /\ net' = SubSeq(Sent, e + k + 1, Len(Sent))
  <2> DEFINE taken == SubSeq(Sent, n + 1, e)
             left == SubSeq(Sent, e + 1, Len(Sent))
  <2>1. /\ taken \o SubSeq(left, 1, k) = SubSeq(Sent, n + 1, e + k)
        /\ SubSeq(left, k + 1, Len(left)) = SubSeq(Sent, e + k + 1, Len(Sent))
    <3>1. n <= e /\ e <= Len(Sent) /\ e \in Nat /\ Sent \in Seq(STRING)
      BY <1>3, <1>4
    <3> QED BY <3>1, <1>6, SliceMoves
  <2> QED BY <1>1, <1>4, <2>1, Zenon
<1>8. e + k \in Nat /\ n <= e + k /\ e + k <= Len(Sent)
  BY <1>3, <1>4, <1>6
<1>9. /\ buffer' \in Seq(STRING) /\ Len(buffer') = e + k - n
      /\ net' \in Seq(STRING)
  <2>1. /\ SubSeq(Sent, n + 1, e + k) \in Seq(STRING)
        /\ Len(SubSeq(Sent, n + 1, e + k)) = e + k - n
        /\ SubSeq(Sent, e + k + 1, Len(Sent)) \in Seq(STRING)
    <3> DEFINE d == e + k
    <3>1. d \in Nat /\ n <= d /\ d <= Len(Sent)
      BY <1>8
    <3> HIDE DEF d
    <3>2. /\ SubSeq(Sent, n + 1, d) \in Seq(STRING) /\ Len(SubSeq(Sent, n + 1, d)) = d - n
          /\ SubSeq(Sent, d + 1, Len(Sent)) \in Seq(STRING)
      BY <1>3, <3>1, SliceBounds
    <3> QED BY <1>4, <1>6, <3>2 DEF d
  <2> QED BY <1>7, <2>1, Zenon
<1>10. Len(buffer') = Len(buffer) + k /\ n + Len(buffer') = e + k
  BY <1>3, <1>6, <1>8, <1>9 DEF e
<1>11. StreamAt(n)'
  BY <1>2, <1>3, <1>7, <1>8, <1>10 DEF StreamAt
<1>12. BufSize \in Nat
  BY SizeAssumption
<1> QED BY <1>1, <1>3, <1>9, <1>10, <1>11, <1>12

(* A set of naturals that is not empty has a least element. *)
LEMMA LeastNatural ==
  ASSUME NEW T \in SUBSET Nat, T # {}
  PROVE  Min(T) \in T /\ \A y \in T : Min(T) <= y
<1> DEFINE R == {ss \in Nat \X Nat : ss[1] < ss[2]}
<1>1. IsWellFoundedOn(R, Nat)
  BY NatLessThanWellFounded, Zenon DEF OpToRel
<1>2. \E x \in T : \A y \in T : ~(<<y, x>> \in R)
  <2> HIDE DEF R
  <2> QED BY <1>1, WFMin
<1>3. \A x, y \in Nat : <<y, x>> \in R <=> y < x
  OBVIOUS
<1> HIDE DEF R
<1>4. PICK x \in T : \A y \in T : ~(<<y, x>> \in R)
  BY <1>2
<1>5. \A y \in T : y \in Nat
  OBVIOUS
<1>6. \A y \in T : ~(y < x)
  BY <1>3, <1>4, <1>5, Zenon
<1>7. \A y \in T : x <= y
  BY <1>5, <1>6
<1> QED BY <1>7 DEF Min

(* The line a full enough buffer begins with ends at its first line end,   *)
(* and what memmove() keeps is everything behind it                        *)
(* (badge_ota.c:408-429, 453-472).                                         *)
LEMMA FirstLine ==
  ASSUME Shape, HasLine
  PROVE  \E i \in 1 .. Len(buffer) :
           /\ buffer[i] = "nl"
           /\ \A j \in 1 .. i - 1 : buffer[j] # "nl"
           /\ Line \in Seq(STRING) /\ Len(Line) = i - 1
           /\ LeftOver = SubSeq(buffer, i + 1, Len(buffer))
<1> DEFINE I == {i \in 1 .. Len(buffer) : buffer[i] = "nl"}
           m == Min(I)
<1>1. buffer \in Seq(STRING) /\ Len(buffer) \in Nat
  BY DEF Shape
<1>2. I \in SUBSET Nat /\ I # {}
  BY <1>1 DEF HasLine, Contains
<1>3. m \in I /\ \A y \in I : m <= y
  <2> HIDE DEF I
  <2> QED BY <1>2, LeastNatural
<1>4. Line = SubSeq(buffer, 1, m - 1)
  BY <1>2 DEF Line, SelectInSeq
<1> HIDE DEF m
<1>5. m \in 1 .. Len(buffer) /\ buffer[m] = "nl"
  BY <1>3
<1>6. \A j \in 1 .. m - 1 : buffer[j] # "nl"
  BY <1>1, <1>3, <1>5
<1>7. Line \in Seq(STRING) /\ Len(Line) = m - 1
  BY <1>1, <1>4, <1>5
<1>8. LeftOver = SubSeq(buffer, m + 1, Len(buffer))
  <2>1. Len(Line) + 2 = m + 1
    BY <1>5, <1>7
  <2> QED BY <2>1 DEF LeftOver
<1> QED BY <1>5, <1>6, <1>7, <1>8

(* Lines are taken from the head one by one: a line that is not empty ends *)
(* before the head does, the first empty one ends where the body begins,   *)
(* and the stream goes on behind it.                                       *)
LEMMA LineInHead ==
  ASSUME Shape, HasLine, NEW n \in Nat, n < Len(resp.head), StreamAt(n),
         n = 0 \/ resp.head[n] = "nl"
  PROVE  LET m == n + Len(Line) + 1
         IN  /\ m \in Nat /\ m >= 1 /\ m <= Len(resp.head) /\ resp.head[m] = "nl"
             /\ Line # <<>> => m < Len(resp.head)
             /\ Line = <<>> /\ n > 0 => m = Len(resp.head)
             /\ LeftOver \in Seq(STRING) /\ Len(LeftOver) < Len(buffer)
             /\ m + Len(LeftOver) = n + Len(buffer)
             /\ LeftOver = SubSeq(Sent, m + 1, m + Len(LeftOver))
<1> DEFINE h == Len(resp.head)
           head == resp.head
           m == n + Len(Line) + 1
           e == n + Len(buffer)
<1>1. PICK i \in 1 .. Len(buffer) :
           /\ buffer[i] = "nl"
           /\ \A j \in 1 .. i - 1 : buffer[j] # "nl"
           /\ Line \in Seq(STRING) /\ Len(Line) = i - 1
           /\ LeftOver = SubSeq(buffer, i + 1, Len(buffer))
  BY FirstLine
<1>2. /\ Sent \in Seq(STRING) /\ Len(Sent) \in Nat /\ h \in Nat /\ h > 1 /\ h <= Len(Sent)
      /\ \A k \in 1 .. h : Sent[k] = head[k]
      /\ buffer \in Seq(STRING) /\ Len(buffer) \in Nat
      /\ e \in Nat /\ e <= Len(Sent) /\ buffer = SubSeq(Sent, n + 1, e)
  <2>1. /\ Sent \in Seq(STRING) /\ h \in Nat /\ h > 1 /\ Len(resp.body) \in Nat
        /\ Len(Sent) = h + Len(resp.body) /\ buffer \in Seq(STRING)
        /\ \A k \in 1 .. h : Sent[k] = head[k]
    BY SentProperties DEF Shape
  <2>2. Len(buffer) \in Nat /\ Len(Sent) \in Nat /\ h <= Len(Sent) /\ e \in Nat
    <3> HIDE DEF h, head
    <3>1. Len(buffer) \in Nat /\ Len(Sent) \in Nat
      BY <2>1
    <3>2. h <= Len(Sent)
      BY <2>1
    <3> QED BY <3>1, <3>2
  <2>3. e <= Len(Sent) /\ buffer = SubSeq(Sent, n + 1, e)
    BY Zenon DEF StreamAt
  <2> QED BY <2>1, <2>2, <2>3, Zenon
<1>3. /\ head[h] = "nl" /\ head[h - 1] = "nl"
      /\ \A k \in 1 .. h - 1 : head[k] = "nl" /\ head[k + 1] = "nl" => k = h - 1
  <2>1. resp \in Responses
    BY DEF Shape
  <2>2. \A k \in 1 .. h - 1 : head[k] = "nl" /\ head[k + 1] = "nl" <=> k = h - 1
    BY <2>1, ResponseAssumption
  <2>3. h - 1 \in 1 .. h - 1 /\ (h - 1) + 1 = h
    BY <1>2
  <2> HIDE DEF h, head
  <2> QED BY <2>2, <2>3
<1> HIDE DEF h, head, e
<1>4. \A k \in 1 .. Len(buffer) : n + k \in 1 .. Len(Sent) /\ buffer[k] = Sent[n + k]
  BY <1>2, SliceBounds DEF e
<1>5. m = n + i
  BY <1>1
<1> HIDE DEF m
<1>6. n < h
  BY DEF h
<1>7. m <= h
  <2> SUFFICES ASSUME ~(m <= h) PROVE FALSE
    OBVIOUS
  <2>1. h - n \in 1 .. i - 1 /\ h - n \in 1 .. Len(buffer) /\ n + (h - n) = h
    BY <1>1, <1>2, <1>5, <1>6
  <2>2. buffer[h - n] = Sent[h] /\ Sent[h] = head[h]
    BY <1>2, <1>4, <2>1
  <2> QED BY <1>1, <1>3, <2>1, <2>2
<1>8. m \in 1 .. h /\ head[m] = "nl"
  BY <1>1, <1>2, <1>4, <1>5, <1>7
<1>9. ASSUME Line # <<>> PROVE m < h
  <2>1. Len(Line) # 0
    BY <1>1, <1>9, EmptySeq
  <2>2. i > 1 /\ i - 1 \in 1 .. i - 1 /\ i - 1 \in 1 .. Len(buffer) /\ n + (i - 1) = m - 1
    <3>1. i - 1 # 0 /\ i \in Nat /\ Len(buffer) \in Nat /\ i <= Len(buffer) /\ i >= 1
      BY <1>1, <1>2, <2>1
    <3> QED BY <1>5, <3>1
  <2>3. buffer[i - 1] = Sent[m - 1]
    BY <1>4, <2>2
  <2>4. m - 1 \in 1 .. h
    BY <1>2, <1>5, <1>8, <2>2
  <2>5. head[m - 1] # "nl"
    BY <1>1, <1>2, <2>2, <2>3, <2>4
  <2>6. m # h
    BY <1>3, <2>5
  <2> QED BY <1>2, <1>8, <2>6
<1>10. ASSUME Line = <<>>, n > 0 PROVE m = h
  <2>1. Len(Line) = 0
    BY <1>10
  <2>2. m = n + 1 /\ n \in 1 .. h - 1
    BY <1>1, <1>2, <1>5, <1>6, <1>10, <2>1
  <2>3. head[n] = "nl"
    BY <1>10 DEF head
  <2>4. n = h - 1
    BY <1>3, <1>8, <2>2, <2>3
  <2> QED BY <1>2, <2>2, <2>4
<1>11. i \in Nat /\ i <= Len(buffer) /\ Len(buffer) = e - n /\ n <= e /\ n + Len(buffer) = e
  BY <1>1, <1>2 DEF e
<1>12. LeftOver = SubSeq(Sent, m + 1, e)
  <2>1. SubSeq(SubSeq(Sent, n + 1, e), i + 1, e - n) = SubSeq(Sent, n + i + 1, n + (e - n))
    BY <1>2, <1>11, SliceOfSlice
  <2>2. n + (e - n) = e
    BY <1>2
  <2> QED BY <1>1, <1>2, <1>5, <1>11, <2>1, <2>2
<1>13. m \in Nat /\ m <= e
  BY <1>2, <1>5, <1>11
<1>14. LeftOver \in Seq(STRING) /\ Len(LeftOver) = e - m
  BY <1>2, <1>12, <1>13, SliceBounds
<1>15. m + Len(LeftOver) = e /\ Len(LeftOver) < Len(buffer)
  BY <1>2, <1>5, <1>11, <1>13, <1>14
<1>16. LeftOver = SubSeq(Sent, m + 1, m + Len(LeftOver))
  BY <1>12, <1>15
<1>17. m >= 1 /\ m + Len(LeftOver) = n + Len(buffer)
  BY <1>2, <1>8, <1>11, <1>15
<1> QED BY <1>7, <1>8, <1>9, <1>10, <1>13, <1>14, <1>15, <1>16, <1>17, Zenon DEF m, h, head

-----------------------------------------------------------------------------
(* The download, and what it leaves in flash. *)

Fresh == buffer = <<>> /\ net = <<>> /\ clen = NoLength /\ cpos = 0

LengthSeen == clen = NoLength \/ (clen = resp.length /\ clen >= 0)

(* The partition holds the body's first content_pos units. *)
Written ==
  /\ cpos >= 0 /\ cpos <= Len(resp.body)
  /\ cpos > 0 => clen > 0
  /\ clen = resp.length /\ clen >= 0 /\ clen <= PartSize
  /\ image[part_update] = SubSeq(Sent, Len(resp.head) + 1, Len(resp.head) + cpos)

Receiving == {"status", "headers", "begin", "body", "end", "set_boot"}

(* No more than the announced body is taken, or what the buffer held of it *)
(* behind the headers.                                                     *)
Fits(n) == n <= clen \/ n < BufSize

(* Where the stream stands in each phase: at the start, behind a line of   *)
(* the head, behind the head, behind what was written; and nothing is left *)
(* to write when the outer loop has ended.                                 *)
InHeaders ==
  /\ phase = "status" => StreamAt(0) /\ clen = NoLength /\ cpos = 0
  /\ phase = "headers" =>
       /\ cpos = 0 /\ LengthSeen
       /\ \E n \in 1 .. Len(resp.head) - 1 : resp.head[n] = "nl" /\ StreamAt(n)
  /\ phase = "begin" =>
       cpos = 0 /\ LengthSeen /\ StreamAt(Len(resp.head)) /\ Len(buffer) < BufSize

InBody ==
  /\ phase \in {"body", "end", "set_boot"} => Written
  /\ phase = "body" => StreamAt(Len(resp.head) + cpos) /\ Fits(cpos + Len(buffer))
  /\ phase \in {"end", "set_boot"} => cpos >= clen /\ Fits(cpos)
  /\ phase = "set_boot" => image[part_update] # <<>>

Streams == (phase \notin Receiving => Fresh) /\ InHeaders /\ InBody

StreamInv == Shape /\ Streams

LEMMA StreamInit == Init => StreamInv
<1> SUFFICES ASSUME Init PROVE StreamInv
  OBVIOUS
<1>1. Len(<<>>) = 0 /\ <<>> \in Seq(STRING) /\ NoLength \in Int
  BY DEF NoLength
<1>2. BufSize \in Nat
  BY SizeAssumption
<1>3. image = [p \in Parts |-> image[p]]
  BY DEF Init
<1>4. Shape
  BY <1>1, <1>2, <1>3 DEF Init, Shape, Parts
<1>5. phase = "app_main" /\ Fresh
  BY DEF Init, Fresh
<1> QED BY <1>4, <1>5 DEF StreamInv, Streams, InHeaders, InBody

(* A restart of any kind forgets the download; the partitions and otadata  *)
(* stay as they are, and the badge runs what otadata selects.              *)
LEMMA RestartStream ==
  ASSUME StreamInv, NEW d \in BOOLEAN, Restart(d), UNCHANGED <<image, boot>>
  PROVE  StreamInv'
<1>1. Len(<<>>) = 0 /\ <<>> \in Seq(STRING) /\ NoLength \in Int
  BY DEF NoLength
<1>2. BufSize \in Nat
  BY SizeAssumption
<1>3. Shape'
  <2>1. /\ buffer' = <<>> /\ net' = <<>> /\ clen' = NoLength /\ cpos' = 0
        /\ running' = boot /\ boot' = boot /\ image' = image /\ resp' \in Responses
    BY DEF Restart
  <2>2. Len(buffer') = 0 /\ buffer' \in Seq(STRING) /\ net' \in Seq(STRING) /\ clen' \in Int
    BY <1>1, <2>1
  <2> QED BY <1>2, <2>1, <2>2 DEF StreamInv, Shape
<1>4. phase' = "app_main" /\ Fresh'
  BY DEF Restart, Fresh, NoLength
<1> QED BY <1>3, <1>4 DEF StreamInv, Streams, InHeaders, InBody, Receiving

(* Steps that touch neither the download nor flash, outside of it or       *)
(* without leaving their phase.                                            *)
LEMMA OutsideStream ==
  ASSUME StreamInv, UNCHANGED <<ram, flash>>,
         phase' = phase \/ (phase \notin Receiving /\ phase' \notin Receiving)
  PROVE  StreamInv'
<1>1. /\ resp' = resp /\ net' = net /\ buffer' = buffer /\ clen' = clen /\ cpos' = cpos
      /\ image' = image /\ boot' = boot /\ running' = running
  BY DEF ram, flash
<1>2. Shape'
  BY <1>1 DEF StreamInv, Shape
<1>3. /\ Sent' = Sent /\ Fresh' = Fresh /\ LengthSeen' = LengthSeen
      /\ part_update' = part_update
  BY <1>1 DEF Sent, Fresh, LengthSeen, part_update
<1>4. Written' = Written
  BY <1>1, <1>3 DEF Written
<1>5. \A n : StreamAt(n)' = StreamAt(n) /\ Fits(n)' = Fits(n)
  BY <1>1, <1>3 DEF StreamAt, Fits
<1>6. CASE phase' = phase
  <2>1. InHeaders'
    BY <1>1, <1>3, <1>5, <1>6 DEF StreamInv, Streams, InHeaders
  <2>2. InBody'
    BY <1>1, <1>3, <1>4, <1>5, <1>6 DEF StreamInv, Streams, InBody
  <2> QED BY <1>2, <1>3, <1>6, <2>1, <2>2 DEF StreamInv, Streams
<1>7. CASE phase \notin Receiving /\ phase' \notin Receiving
  BY <1>2, <1>3, <1>7 DEF StreamInv, Streams, InHeaders, InBody, Receiving
<1> QED BY <1>6, <1>7

(* The request starts the stream at its beginning. *)
LEMMA RequestStream == ASSUME StreamInv, Request PROVE StreamInv'
<1>1. /\ phase = "request" /\ phase' = "status" /\ net' = Sent
      /\ resp' = resp /\ buffer' = buffer /\ clen' = clen /\ cpos' = cpos
      /\ image' = image /\ boot' = boot /\ running' = running
  BY DEF Request, Goto, flash, Sent
<1>2. Fresh
  BY <1>1 DEF StreamInv, Streams, Receiving
<1>3. Sent \in Seq(STRING) /\ Sent' = Sent
  BY <1>1, SentProperties DEF StreamInv, Shape, Sent
<1>4. Shape'
  BY <1>1, <1>3 DEF StreamInv, Shape
<1>5. Len(buffer') = 0 /\ buffer' = <<>> /\ Len(Sent) \in Nat
  BY <1>1, <1>2, <1>3 DEF Fresh
<1>6. SubSeq(Sent, 0 + 1, 0 + 0) = <<>> /\ SubSeq(Sent, 0 + 0 + 1, Len(Sent)) = Sent
  BY <1>3, SubSeqEmpty, SubSeqFull
<1>7. StreamAt(0)'
  BY <1>1, <1>3, <1>5, <1>6 DEF StreamAt
<1>8. clen' = NoLength /\ cpos' = 0
  BY <1>1, <1>2 DEF Fresh
<1> QED BY <1>1, <1>4, <1>7, <1>8 DEF StreamInv, Streams, InHeaders, InBody, Receiving

(* Reading for a line moves units into the buffer and nothing else. *)
LEMMA ReadLineStream == ASSUME StreamInv, ReadLine PROVE StreamInv'
<1>1. Shape /\ phase \in {"status", "headers"} /\ Read(BufSize - Len(buffer))
  BY DEF StreamInv, ReadLine
<1>2. BufSize \in Nat /\ Len(buffer) \in Nat
  BY <1>1, SizeAssumption DEF Shape
<1>3. /\ phase' = phase /\ resp' = resp /\ clen' = clen /\ cpos' = cpos
      /\ image' = image /\ boot' = boot /\ running' = running
  BY <1>1 DEF Read, flash
<1>4. ASSUME NEW n \in Nat, StreamAt(n)
      PROVE  /\ StreamAt(n)' /\ Len(buffer)' <= BufSize
             /\ buffer' \in Seq(STRING) /\ net' \in Seq(STRING)
  BY <1>1, <1>2, <1>4, ReadKeepsStream
<1>5. Len(resp.head) \in Nat
  BY <1>1, SentProperties DEF Shape
<1>6. LengthSeen' = LengthSeen
  BY <1>3 DEF LengthSeen
<1>7. CASE phase = "status"
  <2>1. StreamAt(0) /\ clen = NoLength /\ cpos = 0
    BY <1>7 DEF StreamInv, Streams, InHeaders
  <2>2. Shape'
    BY <1>1, <1>3, <1>4, <2>1 DEF Shape
  <2> QED BY <1>3, <1>4, <1>7, <2>1, <2>2
          DEF StreamInv, Streams, InHeaders, InBody, Receiving
<1>8. CASE phase = "headers"
  <2>1. cpos = 0 /\ LengthSeen
    BY <1>8 DEF StreamInv, Streams, InHeaders
  <2>2. PICK n \in 1 .. Len(resp.head) - 1 : resp.head[n] = "nl" /\ StreamAt(n)
    BY <1>8 DEF StreamInv, Streams, InHeaders
  <2>3. n \in Nat
    BY <1>5
  <2>4. Shape'
    BY <1>1, <1>3, <1>4, <2>2, <2>3 DEF Shape
  <2>5. StreamAt(n)'
    BY <1>4, <2>2, <2>3
  <2> QED BY <1>3, <1>6, <1>8, <2>1, <2>2, <2>4, <2>5
          DEF StreamInv, Streams, InHeaders, InBody, Receiving
<1> QED BY <1>1, <1>7, <1>8

(* A line is used up: the stream goes on behind it. *)
LEMMA LineUsed ==
  ASSUME Shape, HasLine, NEW n \in Nat, n < Len(resp.head), StreamAt(n),
         n = 0 \/ resp.head[n] = "nl",
         buffer' = LeftOver, net' = net, resp' = resp
  PROVE  \E m \in 1 .. Len(resp.head) :
           /\ resp.head[m] = "nl"
           /\ Line # <<>> => m < Len(resp.head)
           /\ Line = <<>> /\ n > 0 => m = Len(resp.head)
           /\ StreamAt(m)' /\ buffer' \in Seq(STRING) /\ Len(buffer') < BufSize
<1>1. PICK m \in Nat : m = n + Len(Line) + 1
  <2>1. n + Len(Line) + 1 \in Nat
    BY LineInHead
  <2> QED BY <2>1
<1>2. /\ m >= 1 /\ m <= Len(resp.head) /\ resp.head[m] = "nl"
      /\ Line # <<>> => m < Len(resp.head)
      /\ Line = <<>> /\ n > 0 => m = Len(resp.head)
      /\ LeftOver \in Seq(STRING) /\ Len(LeftOver) < Len(buffer)
      /\ m + Len(LeftOver) = n + Len(buffer)
      /\ LeftOver = SubSeq(Sent, m + 1, m + Len(LeftOver))
  BY <1>1, LineInHead
<1>3. Sent' = Sent
  BY DEF Sent
<1>4. /\ n + Len(buffer) <= Len(Sent)
      /\ net = SubSeq(Sent, n + Len(buffer) + 1, Len(Sent))
  BY Zenon DEF StreamAt
<1>5. /\ m + Len(buffer') <= Len(Sent')
      /\ buffer' = SubSeq(Sent', m + 1, m + Len(buffer'))
      /\ net' = SubSeq(Sent', m + Len(buffer') + 1, Len(Sent'))
  <2>1. m + Len(buffer') = n + Len(buffer)
    BY <1>2
  <2>2. buffer' = SubSeq(Sent, m + 1, m + Len(buffer'))
    BY <1>2
  <2> QED BY <1>3, <1>4, <2>1, <2>2, Zenon
<1>6. StreamAt(m)'
  BY <1>5, Zenon DEF StreamAt
<1>7. Len(LeftOver) < BufSize
  <2>1. Len(LeftOver) \in Nat /\ Len(LeftOver) < Len(buffer)
    BY <1>2, LineInHead
  <2>2. Len(buffer) \in Nat /\ BufSize \in Nat /\ Len(buffer) <= BufSize
    BY SizeAssumption DEF Shape
  <2> QED BY <2>1, <2>2
<1>8. Len(resp.head) \in Nat
  BY SentProperties DEF Shape
<1>9. m \in 1 .. Len(resp.head)
  BY <1>2, <1>8
<1> QED BY <1>2, <1>6, <1>7, <1>9, Zenon

LEMMA StatusStream == ASSUME StreamInv, StatusLine PROVE StreamInv'
<1>1. CASE Line # <<"200">>
  BY <1>1, RestartStream DEF StatusLine, task_fatal_error
<1>2. CASE Line = <<"200">>
  <2>1. /\ phase = "status" /\ HasLine /\ phase' = "headers" /\ buffer' = LeftOver
        /\ resp' = resp /\ net' = net /\ clen' = clen /\ cpos' = cpos
        /\ image' = image /\ boot' = boot /\ running' = running
    BY <1>2 DEF StatusLine, Goto, flash
  <2>2. Shape /\ StreamAt(0) /\ clen = NoLength /\ cpos = 0
    BY <2>1 DEF StreamInv, Streams, InHeaders
  <2>3. Len(resp.head) \in Nat /\ 0 < Len(resp.head)
    BY <2>2, SentProperties DEF Shape
  <2>4. Line # <<>>
    BY <1>2
  <2>5. PICK m \in 1 .. Len(resp.head) :
        /\ resp.head[m] = "nl"
        /\ Line # <<>> => m < Len(resp.head)
        /\ StreamAt(m)' /\ buffer' \in Seq(STRING) /\ Len(buffer') < BufSize
    BY <2>1, <2>2, <2>3, LineUsed
  <2>6. m \in 1 .. Len(resp.head) - 1
    BY <2>3, <2>4, <2>5
  <2>7. Shape'
    <3>1. Len(buffer') <= BufSize
      BY <2>5, SizeAssumption
    <3> QED BY <2>1, <2>2, <2>5, <3>1 DEF Shape
  <2>8. LengthSeen' /\ cpos' = 0
    BY <2>1, <2>2 DEF LengthSeen
  <2> QED BY <2>1, <2>5, <2>6, <2>7, <2>8
          DEF StreamInv, Streams, InHeaders, InBody, Receiving
<1> QED BY <1>1, <1>2

LEMMA HeaderStream == ASSUME StreamInv, HeaderLine PROVE StreamInv'
<1>1. CASE Line = <<"length">> /\ resp.length < 0
  BY <1>1, RestartStream DEF HeaderLine, task_fatal_error
<1>2. CASE ~(Line = <<"length">> /\ resp.length < 0)
  <2>1. /\ phase = "headers" /\ HasLine /\ buffer' = LeftOver
        /\ clen' = IF Line = <<"length">> THEN resp.length ELSE clen
        /\ phase' = IF Line = <<>> THEN "begin" ELSE "headers"
        /\ resp' = resp /\ net' = net /\ cpos' = cpos
        /\ image' = image /\ boot' = boot /\ running' = running
    BY <1>2 DEF HeaderLine, Goto, flash
  <2>2. Shape /\ cpos = 0 /\ LengthSeen
    BY <2>1 DEF StreamInv, Streams, InHeaders
  <2>3. PICK n \in 1 .. Len(resp.head) - 1 : resp.head[n] = "nl" /\ StreamAt(n)
    BY <2>1 DEF StreamInv, Streams, InHeaders
  <2>4. Len(resp.head) \in Nat /\ resp.length \in Int
    BY <2>2, SentProperties DEF Shape
  <2>5. n \in Nat /\ n > 0 /\ n < Len(resp.head)
    BY <2>4
  <2>6. PICK m \in 1 .. Len(resp.head) :
        /\ resp.head[m] = "nl"
        /\ Line # <<>> => m < Len(resp.head)
        /\ Line = <<>> /\ n > 0 => m = Len(resp.head)
        /\ StreamAt(m)' /\ buffer' \in Seq(STRING) /\ Len(buffer') < BufSize
    BY <2>1, <2>2, <2>3, <2>5, LineUsed
  <2>7. clen' \in Int /\ LengthSeen'
    BY <1>2, <2>1, <2>2, <2>4 DEF LengthSeen, Shape, NoLength
  <2>8. Shape'
    <3>1. Len(buffer') <= BufSize
      BY <2>6, SizeAssumption
    <3> QED BY <2>1, <2>2, <2>6, <2>7, <3>1 DEF Shape
  <2>9. CASE Line = <<>>
    <3>1. m = Len(resp.head)
      BY <2>5, <2>6, <2>9
    <3>2. phase' = "begin" /\ m = Len(resp'.head)
      BY <2>1, <2>9, <3>1
    <3>3. StreamAt(Len(resp.head))'
      BY <2>6, <3>2, Zenon DEF StreamAt
    <3>4. Len(buffer') < BufSize
      BY <2>6
    <3> QED BY <2>1, <2>2, <2>7, <2>8, <3>2, <3>3, <3>4
            DEF StreamInv, Streams, InHeaders, InBody, Receiving
  <2>10. CASE Line # <<>>
    <3>1. m \in 1 .. Len(resp.head) - 1 /\ phase' = "headers"
      BY <2>1, <2>4, <2>6, <2>10
    <3> QED BY <2>1, <2>2, <2>6, <2>7, <2>8, <3>1
            DEF StreamInv, Streams, InHeaders, InBody, Receiving
  <2> QED BY <2>9, <2>10
<1> QED BY <1>1, <1>2

(* Erasing the partition: no unit of the body is written or lost yet. *)
LEMMA BeginStream == ASSUME StreamInv, Begin PROVE StreamInv'
<1>1. /\ phase = "begin" /\ phase' = "body" /\ clen # NoLength /\ clen <= PartSize
      /\ image' = [image EXCEPT ![part_update] = <<>>]
      /\ resp' = resp /\ net' = net /\ buffer' = buffer /\ clen' = clen /\ cpos' = cpos
      /\ boot' = boot /\ running' = running
  BY DEF Begin, Goto, ram
<1>2. Shape /\ cpos = 0 /\ LengthSeen /\ StreamAt(Len(resp.head)) /\ Len(buffer) < BufSize
  BY <1>1 DEF StreamInv, Streams, InHeaders
<1>3. /\ Sent \in Seq(STRING) /\ Len(resp.head) \in Nat /\ Len(resp.body) \in Nat
      /\ Sent' = Sent
  BY <1>1, <1>2, SentProperties DEF Shape, Sent
<1>4. Shape'
  BY <1>1, <1>2 DEF Shape, Parts
<1>5. part_update \in Parts /\ part_update' = part_update
  BY <1>1, <1>2 DEF Shape, Parts, part_update
<1>6. image'[part_update'] = <<>>
  BY <1>1, <1>2, <1>5 DEF Shape
<1>7. SubSeq(Sent, Len(resp.head) + 1, Len(resp.head) + 0) = <<>>
  BY <1>3, SubSeqEmpty
<1>8. Written'
  <2>1. cpos' >= 0 /\ cpos' <= Len(resp'.body) /\ ~(cpos' > 0)
    BY <1>1, <1>2, <1>3
  <2>2. clen' = resp'.length /\ clen' >= 0 /\ clen' <= PartSize
    BY <1>1, <1>2 DEF LengthSeen
  <2>3. image'[part_update'] = SubSeq(Sent', Len(resp'.head) + 1, Len(resp'.head) + cpos')
    BY <1>1, <1>2, <1>3, <1>6, <1>7, Zenon
  <2> QED BY <2>1, <2>2, <2>3, Zenon DEF Written
<1>9. Len(resp'.head) + cpos' = Len(resp.head)
  BY <1>1, <1>2, <1>3
<1>10. StreamAt(Len(resp.head) + cpos)'
  BY <1>1, <1>2, <1>3, <1>9 DEF StreamAt
<1>11. Fits(cpos + Len(buffer))'
  <2>1. cpos' + Len(buffer') = Len(buffer) /\ Len(buffer) \in Nat
    BY <1>1, <1>2 DEF Shape
  <2> QED BY <1>2, <2>1 DEF Fits
<1> QED BY <1>1, <1>4, <1>8, <1>10, <1>11 DEF StreamInv, Streams, InHeaders, InBody, Receiving

(* Filling the buffer of the inner loop (badge_ota.c:502-515). *)
LEMMA BodyReadStream == ASSUME StreamInv, BodyRead PROVE StreamInv'
<1> DEFINE need == clen - cpos - Len(buffer)
           room == BufSize - Len(buffer)
           m == IF need > room THEN room ELSE need
<1>1. phase = "body" /\ Read(m)
  BY DEF BodyRead
<1>2. Shape /\ Written /\ StreamAt(Len(resp.head) + cpos)
  BY <1>1 DEF StreamInv, Streams, InBody
<1>3. BufSize \in Nat /\ Len(buffer) \in Nat /\ clen \in Int /\ cpos \in Int
  BY <1>2, SizeAssumption DEF Shape
<1>4. m \in Int /\ m <= BufSize - Len(buffer)
  BY <1>3
<1> HIDE DEF m
<1>5. /\ phase' = phase /\ resp' = resp /\ clen' = clen /\ cpos' = cpos
      /\ image' = image /\ boot' = boot /\ running' = running
  BY <1>1 DEF Read, flash
<1>6. Len(resp.head) \in Nat
  BY <1>2, SentProperties DEF Shape
<1>7. PICK n \in Nat : n = Len(resp.head) + cpos
  <2>1. cpos >= 0
    BY <1>2 DEF Written
  <2> QED BY <1>3, <1>6, <2>1
<1>8. StreamAt(n)
  BY <1>2, <1>7
<1>9. /\ StreamAt(n)' /\ Len(buffer)' <= BufSize /\ buffer' \in Seq(STRING) /\ net' \in Seq(STRING)
      /\ Len(buffer)' - Len(buffer) <= m
  BY <1>1, <1>2, <1>4, <1>8, ReadKeepsStream
<1>10. Shape'
  BY <1>2, <1>5, <1>9 DEF Shape
<1>11. n = Len(resp'.head) + cpos'
  BY <1>5, <1>7
<1>12. StreamAt(Len(resp.head) + cpos)'
  BY <1>9, <1>11, Zenon DEF StreamAt
<1>13. Written'
  BY <1>2, <1>5 DEF Written, Sent, part_update
<1>14. Fits(cpos + Len(buffer))'
  <2>1. m <= clen - cpos - Len(buffer)
    BY <1>3 DEF m
  <2>2. Len(buffer') \in Nat
    BY <1>9
  <2>3. cpos' + Len(buffer') <= clen'
    BY <1>3, <1>4, <1>5, <1>9, <2>1, <2>2
  <2> QED BY <2>3 DEF Fits
<1> QED BY <1>1, <1>5, <1>10, <1>12, <1>13, <1>14 DEF StreamInv, Streams, InHeaders, InBody, Receiving

(* esp_ota_write() of the whole buffer, at the place it belongs to         *)
(* (badge_ota.c:518-525).                                                  *)
LEMMA BodyWriteStream == ASSUME StreamInv, BodyWrite PROVE StreamInv'
<1>1. /\ phase = "body" /\ phase' = "body" /\ buffer' = <<>> /\ cpos' = cpos + Len(buffer)
      /\ ~(cpos >= clen)
      /\ image' = [image EXCEPT ![part_update] = @ \o buffer]
      /\ resp' = resp /\ net' = net /\ clen' = clen /\ boot' = boot /\ running' = running
  BY DEF BodyWrite, BodyEnd
<1>2. Shape /\ Written /\ StreamAt(Len(resp.head) + cpos) /\ Fits(cpos + Len(buffer))
  BY <1>1 DEF StreamInv, Streams, InBody
<1>3. /\ Sent \in Seq(STRING) /\ Len(resp.head) \in Nat /\ Len(resp.body) \in Nat
      /\ Len(Sent) = Len(resp.head) + Len(resp.body) /\ Sent' = Sent
  BY <1>1, <1>2, SentProperties DEF Shape, Sent
<1>4. cpos \in Nat /\ Len(buffer) \in Nat /\ BufSize \in Nat
  BY <1>2, SizeAssumption DEF Shape, Written
<1>5. PICK n \in Nat : n = Len(resp.head) + cpos
  BY <1>3, <1>4
<1>6. PICK e \in Nat : e = n + Len(buffer)
  BY <1>4
<1>7. buffer = SubSeq(Sent, n + 1, e) /\ net = SubSeq(Sent, e + 1, Len(Sent))
  BY <1>2, <1>5, <1>6, Zenon DEF StreamAt
<1>e. e <= Len(Sent)
  BY <1>2, <1>5, <1>6, Zenon DEF StreamAt
<1>h. PICK h \in Nat : h = Len(resp.head)
  BY <1>3
<1>n. PICK b \in Nat, k \in Nat, c \in Nat, N \in Nat :
        /\ b = Len(resp.body) /\ k = Len(buffer) /\ c = cpos /\ N = Len(Sent)
        /\ n = h + c /\ N = h + b /\ e = n + k /\ e <= N
  <2>1. n = h + cpos /\ Len(Sent) = h + Len(resp.body) /\ Len(Sent) \in Nat
    BY <1>3, <1>5, <1>h, LenProperties, Zenon
  <2> QED BY <1>3, <1>4, <1>6, <1>e, <2>1, Zenon
<1>8. part_update \in Parts /\ part_update' = part_update
  BY <1>1, <1>2 DEF Shape, Parts, part_update
<1>9. image'[part_update'] = image[part_update] \o buffer
  BY <1>1, <1>2, <1>8 DEF Shape
<1>10. image[part_update] = SubSeq(Sent, Len(resp.head) + 1, n)
  BY <1>2, <1>5 DEF Written
<1>11. image'[part_update'] = SubSeq(Sent, Len(resp.head) + 1, e)
  <2>1. h + 1 \in 1 .. N + 1 /\ n \in h + 1 - 1 .. N /\ e \in n .. N
    BY <1>n
  <2>2. Sent \in Seq(STRING) /\ N = Len(Sent)
    BY <1>3, <1>n
  <2>3. SubSeq(Sent, h + 1, n) \o SubSeq(Sent, n + 1, e) = SubSeq(Sent, h + 1, e)
    BY <2>1, <2>2, ConcatAdjacentSubSeq
  <2> QED BY <1>7, <1>9, <1>10, <1>h, <2>3, Zenon
<1>12. cpos' \in Nat /\ cpos' <= Len(resp.body) /\ Len(resp'.head) + cpos' = e
  <2>1. cpos' = c + k /\ Len(resp'.head) = h /\ Len(resp.body) = b
    BY <1>1, <1>h, <1>n, Zenon
  <2>2. c + k \in Nat /\ c + k <= b /\ h + (c + k) = e
    BY <1>n
  <2> QED BY <2>1, <2>2, Zenon
<1>13. Shape'
  <2>1. Len(buffer') = 0 /\ buffer' \in Seq(STRING) /\ cpos' \in Int
    <3>1. Len(<<>>) = 0 /\ <<>> \in Seq(STRING)
      BY EmptySeq
    <3> QED BY <1>1, <1>12, <3>1
  <2>2. image' = [p \in Parts |-> image'[p]]
    BY <1>1, <1>2 DEF Shape
  <2>3. Len(buffer') <= BufSize
    BY <1>4, <2>1
  <2> QED BY <1>1, <1>2, <2>1, <2>2, <2>3 DEF Shape
<1>14. Written'
  <2>1. cpos' >= 0 /\ cpos' <= Len(resp'.body) /\ clen' > 0
    <3>1. clen > 0
      BY <1>1, <1>2, <1>4 DEF Shape
    <3> QED BY <1>1, <1>12, <3>1
  <2>2. image'[part_update'] = SubSeq(Sent', Len(resp'.head) + 1, Len(resp'.head) + cpos')
    BY <1>1, <1>3, <1>11, <1>12, Zenon
  <2> QED BY <1>1, <1>2, <2>1, <2>2 DEF Written
<1>15. StreamAt(Len(resp.head) + cpos)'
  <2>1. SubSeq(Sent, e + 1, e + 0) = <<>> /\ e + 0 = e /\ Len(<<>>) = 0
    BY SubSeqEmpty
  <2>2. /\ e + Len(buffer') <= Len(Sent')
        /\ buffer' = SubSeq(Sent', e + 1, e + Len(buffer'))
        /\ net' = SubSeq(Sent', e + Len(buffer') + 1, Len(Sent'))
    BY <1>1, <1>3, <1>7, <1>e, <2>1
  <2> QED BY <1>12, <2>2, Zenon DEF StreamAt
<1>16. Fits(cpos + Len(buffer))'
  <2>1. Len(buffer') = 0 /\ cpos' + 0 = cpos + Len(buffer)
    BY <1>1, <1>4
  <2> QED BY <1>1, <1>2, <2>1 DEF Fits
<1> QED BY <1>1, <1>13, <1>14, <1>15, <1>16 DEF StreamInv, Streams, InHeaders, InBody, Receiving

(* The end of the loop, and esp_ota_end(). *)
LEMMA EndStream == ASSUME StreamInv, BodyDone \/ OtaEnd PROVE StreamInv'
<1>1. CASE OtaEnd /\ image[part_update] = <<>>
  BY <1>1, RestartStream DEF OtaEnd, task_fatal_error
<1>2. CASE BodyDone \/ (OtaEnd /\ image[part_update] # <<>>)
  <2>1. /\ phase \in {"body", "end"} /\ phase' \in {"end", "set_boot"}
        /\ phase = "body" => cpos >= clen
        /\ phase' = "set_boot" => image[part_update] # <<>>
        /\ resp' = resp /\ net' = net /\ buffer' = buffer /\ clen' = clen /\ cpos' = cpos
        /\ image' = image /\ boot' = boot /\ running' = running
    BY <1>2 DEF BodyDone, OtaEnd, Goto, ram, flash, BodyEnd
  <2>2. Shape /\ Written /\ cpos >= clen
    BY <2>1 DEF StreamInv, Streams, InBody
  <2>f. Fits(cpos)
    <3>1. CASE phase = "body"
      <4>1. Fits(cpos + Len(buffer))
        BY <3>1 DEF StreamInv, Streams, InBody
      <4>2. Len(buffer) \in Nat /\ cpos \in Int /\ clen \in Int /\ BufSize \in Int
        BY <2>2, SizeAssumption DEF Shape
      <4> QED BY <4>1, <4>2 DEF Fits
    <3>2. CASE phase = "end"
      BY <3>2 DEF StreamInv, Streams, InBody
    <3> QED BY <2>1, <3>1, <3>2
  <2>3. Shape' /\ Written' /\ Fits(cpos)' /\ part_update' = part_update
    BY <2>1, <2>2, <2>f DEF Shape, Written, Fits, Sent, part_update
  <2> QED BY <2>1, <2>2, <2>3 DEF StreamInv, Streams, InHeaders, InBody, Receiving
<1> QED BY <1>1, <1>2

(* otadata is switched and the badge restarts into what it selects. *)
LEMMA SetBootStream == ASSUME StreamInv, SetBoot PROVE StreamInv'
<1>1. Len(<<>>) = 0 /\ <<>> \in Seq(STRING) /\ NoLength \in Int
  BY DEF NoLength
<1>2. /\ phase' = "app_main" /\ buffer' = <<>> /\ net' = <<>> /\ clen' = NoLength /\ cpos' = 0
      /\ resp' \in Responses /\ boot' = part_update /\ running' = part_update /\ image' = image
  BY DEF SetBoot
<1>3. part_update \in Parts
  BY DEF StreamInv, Shape, Parts, part_update
<1>4. BufSize \in Nat
  BY SizeAssumption
<1>5. Len(buffer') = 0 /\ buffer' \in Seq(STRING) /\ net' \in Seq(STRING) /\ clen' \in Int
  BY <1>1, <1>2
<1>6. Shape'
  BY <1>2, <1>3, <1>4, <1>5 DEF StreamInv, Shape
<1>7. Fresh'
  BY <1>2 DEF Fresh, NoLength
<1> QED BY <1>2, <1>6, <1>7 DEF StreamInv, Streams, InHeaders, InBody, Receiving

LEMMA StreamStep == StreamInv /\ [Next]_vars => StreamInv'
<1> SUFFICES ASSUME StreamInv, [Next]_vars PROVE StreamInv'
  OBVIOUS
<1>1. CASE app_main
  <2>1. /\ UNCHANGED <<ram, flash>> /\ phase = "app_main"
        /\ phase' \in {"wifi", "first_run", "python"}
    BY <1>1, Zenon DEF app_main
  <2> QED BY <2>1, OutsideStream DEF Receiving
<1>2. CASE system_ota_first \/ system_ota_second
  BY <1>2, OutsideStream DEF system_ota_first, system_ota_second, Receiving
<1>3. CASE reboot \/ back_button \/ SwitchOff \/ PowerLoss \/ FlashFails
  BY <1>3, RestartStream DEF reboot, back_button, SwitchOff, PowerLoss, FlashFails
<1>4. CASE GotIp \/ Disconnected
  BY <1>4, OutsideStream DEF GotIp, Disconnected
<1>5. CASE WaitConnected
  BY <1>5, OutsideStream DEF WaitConnected, Goto, Receiving
<1>6. CASE NetworkFails \/ LineTooLong \/ NoFit
  BY <1>6, RestartStream DEF NetworkFails, LineTooLong, NoFit, task_fatal_error
<1>7. CASE Request \/ ReadLine \/ StatusLine \/ HeaderLine
  BY <1>7, RequestStream, ReadLineStream, StatusStream, HeaderStream
<1>8. CASE Begin \/ BodyRead \/ BodyWrite \/ BodyDone \/ OtaEnd \/ SetBoot
  BY <1>8, BeginStream, BodyReadStream, BodyWriteStream, EndStream, SetBootStream
<1>9. CASE UNCHANGED vars
  BY <1>9, OutsideStream DEF vars, ram, flash
<1> QED BY <1>1, <1>2, <1>3, <1>4, <1>5, <1>6, <1>7, <1>8, <1>9 DEF Next

-----------------------------------------------------------------------------
(* Types. *)

Counts == phase \in Phases /\ link \in BOOLEAN /\ faults \in 0 .. MaxFaults

(* Faults are counted up to their bound. *)
LEMMA FaultCount ==
  ASSUME faults \in 0 .. MaxFaults,
         faults' = faults \/ (faults < MaxFaults /\ faults' = faults + 1)
  PROVE  faults' \in 0 .. MaxFaults
BY SizeAssumption

LEMMA CountsStep == Counts /\ [Next]_vars => Counts'
<1> SUFFICES ASSUME Counts, [Next]_vars PROVE Counts'
  OBVIOUS
<1> USE DEF Counts, Phases, OtaPhases
<1>1. CASE app_main
  <2>1. phase' \in {"wifi", "first_run", "python"} /\ link' = link /\ faults' = faults
    BY <1>1, Zenon DEF app_main
  <2> QED BY <2>1
<1>2. CASE system_ota_first \/ system_ota_second
  BY <1>2 DEF system_ota_first, system_ota_second
<1>3. CASE reboot \/ back_button \/ SwitchOff \/ PowerLoss \/ FlashFails
  <2>1. /\ phase' = "app_main" /\ link' = FALSE
        /\ faults' = faults \/ (faults < MaxFaults /\ faults' = faults + 1)
    BY <1>3, Zenon DEF reboot, back_button, SwitchOff, PowerLoss, FlashFails, Restart
  <2> QED BY <2>1, FaultCount
<1>4. CASE GotIp \/ Disconnected
  <2>1. /\ phase' = phase /\ link' \in BOOLEAN
        /\ faults' = faults \/ (faults < MaxFaults /\ faults' = faults + 1)
    BY <1>4, Zenon DEF GotIp, Disconnected
  <2> QED BY <2>1, FaultCount
<1>5. CASE WaitConnected \/ Request \/ StatusLine \/ HeaderLine \/ Begin \/ BodyDone \/ OtaEnd
  BY <1>5 DEF WaitConnected, Request, StatusLine, HeaderLine, Begin, BodyDone, OtaEnd, Goto,
              task_fatal_error, Restart
<1>6. CASE NetworkFails \/ LineTooLong \/ NoFit
  BY <1>6 DEF NetworkFails, LineTooLong, NoFit, task_fatal_error, Restart
<1>7. CASE ReadLine \/ BodyRead \/ BodyWrite \/ SetBoot
  BY <1>7 DEF ReadLine, BodyRead, Read, BodyWrite, SetBoot
<1>8. CASE UNCHANGED vars
  BY <1>8 DEF vars
<1> QED BY <1>1, <1>2, <1>3, <1>4, <1>5, <1>6, <1>7, <1>8 DEF Next

(* The number of bytes written never exceeds the partition: the announced  *)
(* length was compared with its size, and what a buffer may hold beyond    *)
(* that length is less than a partition.                                   *)
LEMMA WithinPartition == ASSUME StreamInv PROVE cpos <= PartSize
<1>1. PartSize \in Nat /\ BufSize \in Nat /\ BufSize <= PartSize
  BY SizeAssumption
<1>2. CASE phase \in {"body", "end", "set_boot"}
  <2>1. Len(buffer) \in Nat /\ cpos \in Int /\ clen \in Int
    BY DEF StreamInv, Shape
  <2>w. clen <= PartSize
    BY <1>2 DEF StreamInv, Streams, InBody, Written
  <2>2. Fits(cpos + Len(buffer)) \/ Fits(cpos)
    BY <1>2 DEF StreamInv, Streams, InBody
  <2> QED BY <1>1, <2>1, <2>w, <2>2 DEF Fits
<1>3. CASE phase \notin {"body", "end", "set_boot"}
  <2>1. cpos = 0
    BY <1>3 DEF StreamInv, Streams, InHeaders, Fresh, Receiving
  <2> QED BY <1>1, <2>1
<1> QED BY <1>2, <1>3

(* The types of the update's state: in particular the buffer never holds   *)
(* more than it has room for and no more is written than the partition     *)
(* takes (badge_ota.c:480-534), for every answer, also one that is longer  *)
(* or shorter than announced, every buffer, partition and fault.           *)
THEOREM OtaTypes == Spec => []TypeOK
<1>1. Init => RtcOK /\ StreamInv /\ Counts
  <2>1. Init => RtcOK
    BY DEF Init, RtcOK, NoRequest, OtaPhases
  <2>2. Init => Counts
    <3>1. 0 \in 0 .. MaxFaults
      BY SizeAssumption
    <3> QED BY <3>1, Zenon DEF Init, Counts, Phases
  <2> QED BY <2>1, <2>2, StreamInit
<1>2. ASSUME RtcOK, StreamInv, Counts PROVE TypeOK
  <2>1. rtc \in {0, 1, 3} \X {0, 252, 254} /\ asked \in Modes \cup {0}
    BY <1>2 DEF RtcOK, NoRequest, Asked, Modes
  <2>2. resp \in Responses /\ Len(buffer) <= BufSize /\ boot \in Parts /\ running \in Parts
    BY <1>2 DEF StreamInv, Shape
  <2> QED BY <1>2, <2>1, <2>2, WithinPartition DEF TypeOK, Counts
<1> QED BY <1>1, <1>2, RtcStep, StreamStep, CountsStep, PTL DEF Spec

-----------------------------------------------------------------------------
(* The update implements the promise. *)

(* A step that leaves the selected image alone and gives up a request or   *)
(* leaves it as it is: Drop, or no step of the promise.                    *)
LEMMA GivesUpOrStays ==
  ASSUME image'[boot'] = image[boot], asked' = asked \/ asked' = 0
  PROVE  [Promise!Next]_(Promise!vars)
BY DEF Promise!Next, Promise!Drop, Promise!vars

LEMMA RestartPromise ==
  ASSUME NEW d \in BOOLEAN, Restart(d), UNCHANGED <<image, boot>>
  PROVE  [Promise!Next]_(Promise!vars)
BY GivesUpOrStays DEF Restart

(* What esp_ota_set_boot_partition() selects is a whole body: the loop     *)
(* ended at the announced length, or with what one buffer held beyond it.  *)
LEMMA WholeImage ==
  ASSUME StreamInv, phase = "set_boot"
  PROVE  image[part_update] \in UNION {Installed(r) : r \in Complete}
<1>1. Written /\ cpos >= clen /\ Fits(cpos) /\ image[part_update] # <<>>
  BY DEF StreamInv, Streams, InBody
<1>2. /\ resp \in Responses /\ Len(resp.body) \in Nat /\ Len(resp.head) \in Nat
      /\ resp.body \in Seq(STRING) /\ Sent \in Seq(STRING)
      /\ cpos \in Int /\ clen \in Int
      /\ Len(Sent) = Len(resp.head) + Len(resp.body)
      /\ SubSeq(Sent, Len(resp.head) + 1, Len(Sent)) = resp.body
  BY SentProperties DEF StreamInv, Shape
<1>3. /\ cpos \in Nat /\ cpos <= Len(resp.body) /\ clen = resp.length /\ clen >= 0
      /\ image[part_update] = SubSeq(Sent, Len(resp.head) + 1, Len(resp.head) + cpos)
      /\ cpos > 0 => clen > 0
  BY <1>1, <1>2 DEF Written
<1>4. cpos # 0
  <2>1. SubSeq(Sent, Len(resp.head) + 1, Len(resp.head) + 0) = <<>>
    BY <1>2, SubSeqEmpty
  <2> QED BY <1>1, <1>3, <2>1
<1>5. image[part_update] = SubSeq(resp.body, 1, cpos)
  <2>1. PICK h \in Nat, b \in Nat, e \in Nat, c \in Nat :
             /\ h = Len(resp.head) /\ b = Len(resp.body) /\ e = Len(Sent) /\ c = cpos
             /\ e = h + b /\ c <= b
    <3>1. Len(Sent) \in Nat
      BY <1>2, LenProperties
    <3> QED BY <1>2, <1>3, <3>1, Zenon
  <2>2. h <= e /\ c <= e - h /\ h + 0 + 1 = h + 1 /\ 0 + 1 = 1 /\ 0 <= c
    <3>1. e = h + b /\ c <= b
      BY <2>1, Zenon
    <3> QED BY ONLY <3>1, h \in Nat, b \in Nat, e \in Nat, c \in Nat
  <2>3. SubSeq(SubSeq(Sent, h + 1, e), 0 + 1, c) = SubSeq(Sent, h + 0 + 1, h + c)
    <3>1. Sent \in Seq(STRING) /\ e <= Len(Sent) /\ 0 \in Nat
      BY <1>2, <2>1
    <3>2. ASSUME NEW s \in Seq(STRING), e <= Len(s)
          PROVE  SubSeq(SubSeq(s, h + 1, e), 0 + 1, c) = SubSeq(s, h + 0 + 1, h + c)
      BY <2>2, <3>1, <3>2, SliceOfSlice
    <3> QED BY <3>1, <3>2, Zenon
  <2>4. SubSeq(resp.body, 1, c) = SubSeq(Sent, h + 1, h + c)
    BY <1>2, <2>1, <2>2, <2>3, Zenon
  <2> QED BY <1>3, <2>1, <2>4, Zenon
<1>6. resp \in Complete
  BY <1>1, <1>2, <1>3, <1>4 DEF Complete
<1>7. cpos \in {k \in resp.length .. Len(resp.body) : k = resp.length \/ k < BufSize}
  BY <1>1, <1>2, <1>3, SizeAssumption DEF Fits
<1>8. image[part_update] \in Installed(resp)
  BY <1>5, <1>7 DEF Installed
<1> QED BY <1>6, <1>8

LEMMA PromiseStep ==
  ASSUME RtcOK, StreamInv, [Next]_vars
  PROVE  [Promise!Next]_(Promise!vars)
<1>1. CASE app_main
  <2>1. image' = image /\ boot' = boot /\ (asked' = asked \/ asked' = 0)
    BY <1>1, Zenon DEF app_main, flash
  <2> QED BY <2>1, GivesUpOrStays
<1>2. CASE system_ota_first
  BY <1>2, GivesUpOrStays DEF system_ota_first, flash
<1>3. CASE system_ota_second
  <2>1. asked = 0
    BY <1>3 DEF system_ota_second, RtcOK, NoRequest, Asked, Modes
  <2> QED BY <1>3, <2>1 DEF system_ota_second, flash, Promise!Next, Promise!Request, Promise!vars
<1>4. CASE reboot \/ back_button \/ SwitchOff \/ PowerLoss \/ FlashFails
  BY <1>4, RestartPromise DEF reboot, back_button, SwitchOff, PowerLoss, FlashFails
<1>5. CASE GotIp \/ Disconnected \/ WaitConnected \/ Request
  BY <1>5, GivesUpOrStays DEF GotIp, Disconnected, WaitConnected, Request, Goto, flash
<1>6. CASE NetworkFails \/ LineTooLong \/ NoFit
  BY <1>6, RestartPromise DEF NetworkFails, LineTooLong, NoFit, task_fatal_error
<1>7. CASE StatusLine \/ HeaderLine \/ BodyDone \/ OtaEnd
  BY <1>7, RestartPromise, GivesUpOrStays
     DEF StatusLine, HeaderLine, BodyDone, OtaEnd, task_fatal_error, Goto, flash
<1>8. CASE ReadLine \/ BodyRead
  BY <1>8, GivesUpOrStays DEF ReadLine, BodyRead, Read, flash
<1>9. CASE Begin \/ BodyWrite
  <2>1. /\ boot' = boot /\ asked' = asked
        /\ \E v : image' = [image EXCEPT ![part_update] = v]
    BY <1>9, Zenon DEF Begin, BodyWrite, Goto
  <2>2. part_update # boot
    BY DEF StreamInv, Shape, Parts, part_update
  <2> QED BY <2>1, <2>2, GivesUpOrStays DEF StreamInv, Shape
<1>10. CASE SetBoot
  <2>1. asked = 1
    BY <1>10 DEF SetBoot, RtcOK, Asked, OtaPhases
  <2>2. image[part_update] \in UNION {Installed(r) : r \in Complete}
    BY <1>10, WholeImage DEF SetBoot
  <2>3. asked' = 0 /\ boot' = part_update /\ image' = image
    BY <1>10 DEF SetBoot
  <2> QED BY <2>1, <2>2, <2>3 DEF Promise!Next, Promise!Install
<1>11. CASE UNCHANGED vars
  BY <1>11, GivesUpOrStays DEF vars
<1> QED BY <1>1, <1>2, <1>3, <1>4, <1>5, <1>6, <1>7, <1>8, <1>9, <1>10, <1>11 DEF Next

(* The update implements UpdatePromise: whatever the server answers and    *)
(* however it is cut into reads, whatever fails and whenever power is      *)
(* lost, the image the badge starts changes in one step, on a request, and *)
(* to every announced block, in order, of a completely received body; more *)
(* than was announced only gets in where less than a buffer was announced  *)
(* (badge_ota.c:240-557).                                                  *)
THEOREM AtomicUpdate == Spec => UpdateIsAtomic
<1>1. Init => RtcOK /\ StreamInv /\ Promise!Init
  <2>1. Init => RtcOK
    BY DEF Init, RtcOK, NoRequest, OtaPhases
  <2>2. Init => Promise!Init
    BY DEF Init, Promise!Init, Parts
  <2> QED BY <2>1, <2>2, StreamInit
<1> QED BY <1>1, RtcStep, StreamStep, PromiseStep, PTL DEF Spec, UpdateIsAtomic, Promise!Spec

=============================================================================
