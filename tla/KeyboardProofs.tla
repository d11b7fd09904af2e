--------------------------- MODULE KeyboardProofs ---------------------------
(***************************************************************************)
(* Proofs about Keyboard and Console.                                      *)
(*                                                                         *)
(* Keyboard: as long as no key is struck into a full buffer, the ring      *)
(* buffers hold the unread characters between head and tail, and implement *)
(* a queue per process, for every size of the buffers and every set of     *)
(* processes.                                                              *)
(*                                                                         *)
(* Console: the screen shows the text, and the command that the shell      *)
(* executes is what the user reads behind the prompt, for every size of    *)
(* the display, every alphabet and every number of keys.                   *)
(***************************************************************************)
EXTENDS Keyboard, Console, SequenceTheorems, WellFoundedInduction, TLAPS

N == PROCESS_MAX_KEYBOARD_BUFFER_SIZE

(* The hypothesis of the theorems: the user strikes no key into a full     *)
(* buffer.  keyboard_push_to_buffer does not test for it.                  *)
NoOverrun == MaxUnread <= PROCESS_MAX_KEYBOARD_BUFFER_SIZE

Buffers == [buffer : [Cells -> Chars \cup {NUL}], head : Cells, tail : Cells]

(* The i-th cell after head.                                               *)
Cell(kb, i) == (kb.head + i) % N

(* The n cells from head up to tail hold characters, the others do not.    *)
Ring(kb, n) ==
  /\ kb.tail = Cell(kb, n)
  /\ \A i \in 0 .. (n - 1) : kb.buffer[Cell(kb, i)] # NUL
  /\ \A i \in n .. (N - 1) : kb.buffer[Cell(kb, i)] = NUL

Rings == \A p \in alive : \E n \in 0 .. N : Ring(keyboard_buf[p], n)

KeyboardInv == TypeOK /\ Gshell \in alive /\ Rings
-----------------------------------------------------------------------------
(* The remainder, for the sums that index a buffer.                        *)
LEMMA ModBelow ==
  ASSUME NEW m \in Nat \ {0}, NEW a \in 0 .. (m - 1)
  PROVE  a % m = a
  BY SMT

LEMMA ModAbove ==
  ASSUME NEW m \in Nat \ {0}, NEW a \in m .. (m + m - 1)
  PROVE  a % m = a - m
  BY SMT

LEMMA BufferSize == N \in Nat /\ 0 < N /\ Cells = 0 .. (N - 1)
  BY KeyboardAssumption DEF N, Cells

LEMMA CellIs ==
  ASSUME NEW kb \in Buffers, NEW i \in 0 .. N
  PROVE  /\ Cell(kb, i) \in Cells
         /\ Cell(kb, i) = IF kb.head + i < N THEN kb.head + i
                          ELSE kb.head + i - N
<1> DEFINE a == kb.head + i
<1>1. kb.head \in 0 .. (N - 1)
  BY BufferSize DEF Buffers
<1>2. a \in Nat /\ a < N + N
  BY <1>1, BufferSize
<1>3. a < N => a % N = a
  BY <1>2, ModBelow, BufferSize
<1>4. ~(a < N) => a % N = a - N
  BY <1>2, ModAbove, BufferSize
<1>5. Cell(kb, i) = a % N
  BY DEF Cell
<1> QED BY <1>1, <1>2, <1>3, <1>4, <1>5, BufferSize

(* No cell is met twice between head and head.                             *)
LEMMA CellsDiffer ==
  ASSUME NEW kb \in Buffers, NEW i \in 0 .. (N - 1), NEW j \in 0 .. (N - 1),
         i # j
  PROVE  Cell(kb, i) # Cell(kb, j)
<1>1. kb.head \in 0 .. (N - 1)
  BY BufferSize DEF Buffers
<1>2. Cell(kb, i) = IF kb.head + i < N THEN kb.head + i ELSE kb.head + i - N
  BY CellIs, BufferSize
<1>3. Cell(kb, j) = IF kb.head + j < N THEN kb.head + j ELSE kb.head + j - N
  BY CellIs, BufferSize
<1> QED BY <1>1, <1>2, <1>3, BufferSize

LEMMA HeadCell ==
  ASSUME NEW kb \in Buffers
  PROVE  Cell(kb, 0) = kb.head /\ kb.head \in Cells
<1>1. kb.head \in 0 .. (N - 1)
  BY BufferSize DEF Buffers
<1> QED BY <1>1, CellIs, BufferSize

(* Advance leads from a cell to the next one.                              *)
LEMMA NextCell ==
  ASSUME NEW kb \in Buffers, NEW i \in 0 .. (N - 1)
  PROVE  (Cell(kb, i) + 1) % N = Cell(kb, i + 1)
<1> DEFINE h == kb.head
           c == Cell(kb, i)
           d == Cell(kb, i + 1)
           r == (c + 1) % N
<1>1. h \in 0 .. (N - 1) /\ i \in 0 .. N /\ i + 1 \in 0 .. N
  BY BufferSize DEF Buffers
<1>2. c \in 0 .. (N - 1) /\ c = IF h + i < N THEN h + i ELSE h + i - N
  BY <1>1, CellIs, BufferSize
<1>3. d = IF h + (i + 1) < N THEN h + (i + 1) ELSE h + (i + 1) - N
  BY <1>1, CellIs
<1>4. c + 1 < N => r = c + 1
  BY <1>2, ModBelow, BufferSize
<1>5. ~(c + 1 < N) => r = c + 1 - N
  <2> HAVE ~(c + 1 < N)
  <2>1. c + 1 = N /\ c + 1 - N = 0
    BY <1>2, BufferSize
  <2>2. N % N = N - N
    BY ModAbove, BufferSize
  <2> QED BY <2>1, <2>2, BufferSize
<1> HIDE DEF h, c, d, r
<1>6. r = d
  BY <1>1, <1>2, <1>3, <1>4, <1>5, BufferSize
<1> QED BY <1>6 DEF r, d, c

(* UnreadCount finds the number of characters in a ring.                   *)
LEMMA CountOfRing ==
  ASSUME NEW kb \in Buffers, NEW n \in 0 .. N, Ring(kb, n)
  PROVE  UnreadCount(kb) = n
<1> DEFINE P(m) == /\ \A i \in 0 .. (m - 1) : kb.buffer[Cell(kb, i)] # NUL
                   /\ m < N => kb.buffer[Cell(kb, m)] = NUL
<1>1. UnreadCount(kb) = CHOOSE m \in 0 .. N : P(m)
  BY Zenon DEF UnreadCount, Cell, N
<1>2. P(n)
  BY BufferSize DEF Ring
<1>3. ASSUME NEW m \in 0 .. N, P(m) PROVE m = n
  <2>1. ~(m < n)
    BY <1>3, BufferSize DEF Ring
  <2>2. ~(n < m)
    BY <1>3, <1>2, BufferSize
  <2> QED BY <2>1, <2>2, BufferSize
<1> HIDE DEF P
<1>4. UnreadCount(kb) \in 0 .. N /\ P(UnreadCount(kb))
  BY <1>1, <1>2, Zenon
<1> QED BY <1>3, <1>4

(* The unread characters are a sequence of characters.                     *)
LEMMA UnreadOfRing ==
  ASSUME NEW kb \in Buffers, NEW n \in 0 .. N, Ring(kb, n)
  PROVE  /\ Unread(kb) = [i \in 1 .. n |-> kb.buffer[Cell(kb, i - 1)]]
         /\ Unread(kb) \in Seq(Chars)
         /\ Len(Unread(kb)) = n
<1>1. UnreadCount(kb) = n
  BY CountOfRing
<1>2. ASSUME NEW i \in 1 .. n
      PROVE  (kb.head + i - 1) % N = Cell(kb, i - 1)
  <2>1. kb.head \in Int
    BY BufferSize DEF Buffers
  <2>2. kb.head + i - 1 = kb.head + (i - 1)
    BY <2>1, BufferSize
  <2> QED BY <2>2 DEF Cell
<1>3. Unread(kb) = [i \in 1 .. n |-> kb.buffer[(kb.head + i - 1) % N]]
  BY <1>1, Zenon DEF Unread, N
<1>4. Unread(kb) = [i \in 1 .. n |-> kb.buffer[Cell(kb, i - 1)]]
  BY <1>2, <1>3, Zenon
<1>5. ASSUME NEW i \in 1 .. n PROVE kb.buffer[Cell(kb, i - 1)] \in Chars
  <2>1. i - 1 \in 0 .. (n - 1) /\ i - 1 \in 0 .. N
    BY BufferSize
  <2>2. Cell(kb, i - 1) \in Cells
    BY <2>1, CellIs
  <2> QED BY <2>1, <2>2 DEF Ring, Buffers
<1>6. n \in Nat
  BY BufferSize
<1> QED BY <1>4, <1>5, <1>6
-----------------------------------------------------------------------------
LEMMA EmptyRing == EmptyBuf \in Buffers /\ Ring(EmptyBuf, 0)
<1>1. EmptyBuf \in Buffers
  BY BufferSize DEF EmptyBuf, Buffers
<1>2. \A i \in 0 .. (N - 1) : EmptyBuf.buffer[Cell(EmptyBuf, i)] = NUL
  BY <1>1, CellIs, BufferSize DEF EmptyBuf
<1>3. EmptyBuf.tail = Cell(EmptyBuf, 0)
  BY <1>1, HeadCell DEF EmptyBuf
<1> QED BY <1>1, <1>2, <1>3, BufferSize DEF Ring

LEMMA EmptyUnread == Unread(EmptyBuf) = <<>>
  BY EmptyRing, UnreadOfRing, BufferSize

(* A key that is struck into a buffer with room is read last.              *)
LEMMA PushRing ==
  ASSUME NEW kb \in Buffers, NEW n \in 0 .. (N - 1), Ring(kb, n),
         NEW ch \in Chars
  PROVE  LET new == keyboard_push_to_buffer(kb, ch)
         IN  /\ new \in Buffers
             /\ Ring(new, n + 1)
             /\ Unread(new) = Append(Unread(kb), ch)
<1> DEFINE new == keyboard_push_to_buffer(kb, ch)
<1>n. n \in 0 .. N /\ n + 1 \in 0 .. N /\ n \in Nat
  BY BufferSize
<1>1. ch # NUL
  BY DEF Chars, NUL
<1>2. new = [kb EXCEPT !.buffer[kb.tail] = ch, !.tail = Advance(@)]
  BY <1>1, Zenon DEF keyboard_push_to_buffer
<1>3. /\ kb.head \in 0 .. (N - 1) /\ kb.tail \in Cells
      /\ kb.buffer \in [Cells -> Chars \cup {NUL}]
  BY BufferSize DEF Buffers
<1>4. /\ new.head = kb.head
      /\ new.tail = (kb.tail + 1) % N
      /\ new.buffer = [kb.buffer EXCEPT ![kb.tail] = ch]
      /\ DOMAIN new = {"buffer", "head", "tail"}
      /\ new = [buffer |-> new.buffer, head |-> new.head, tail |-> new.tail]
  BY <1>2 DEF Buffers, Advance, N
<1>5. kb.tail = Cell(kb, n)
  BY DEF Ring
<1>6. (kb.tail + 1) % N = Cell(kb, n + 1)
  BY <1>5, NextCell
<1>7. Cell(kb, n + 1) \in Cells
  BY <1>n, CellIs
<1>8. new \in Buffers
  BY <1>3, <1>4, <1>6, <1>7, BufferSize DEF Buffers
<1> HIDE DEF new
<1>9. \A i \in 0 .. N : Cell(new, i) = Cell(kb, i)
  BY <1>4 DEF Cell
<1>10. \A i \in 0 .. (N - 1) :
         new.buffer[Cell(kb, i)] = IF i = n THEN ch
                                   ELSE kb.buffer[Cell(kb, i)]
  <2> TAKE i \in 0 .. (N - 1)
  <2>1. Cell(kb, i) \in Cells
    BY CellIs, BufferSize
  <2>2. i # n => Cell(kb, i) # kb.tail
    BY <1>5, CellsDiffer
  <2> QED BY <1>3, <1>4, <1>5, <2>1, <2>2
<1>11. Ring(new, n + 1)
  <2>1. new.tail = Cell(new, n + 1)
    BY <1>4, <1>6, <1>9, <1>n
  <2>2. ASSUME NEW i \in 0 .. n PROVE new.buffer[Cell(new, i)] # NUL
    <3>1. i \in 0 .. (N - 1) /\ i \in 0 .. N
      BY BufferSize
    <3>2. i # n => kb.buffer[Cell(kb, i)] # NUL
      BY <1>n DEF Ring
    <3> QED BY <1>1, <1>9, <1>10, <3>1, <3>2
  <2>3. ASSUME NEW i \in (n + 1) .. (N - 1)
        PROVE  new.buffer[Cell(new, i)] = NUL
    <3>1. i \in 0 .. (N - 1) /\ i \in 0 .. N /\ i # n /\ i \in n .. (N - 1)
      BY BufferSize
    <3> QED BY <1>9, <1>10, <3>1 DEF Ring
  <2>4. (n + 1) - 1 = n
    BY <1>n
  <2> QED BY <2>1, <2>2, <2>3, <2>4 DEF Ring
<1>12. /\ Unread(kb) = [i \in 1 .. n |-> kb.buffer[Cell(kb, i - 1)]]
       /\ Unread(kb) \in Seq(Chars) /\ Len(Unread(kb)) = n
  BY <1>n, UnreadOfRing
<1>13. Unread(new) = [i \in 1 .. (n + 1) |-> new.buffer[Cell(new, i - 1)]]
  BY <1>n, <1>8, <1>11, UnreadOfRing
<1>14. \A i \in 1 .. (n + 1) : new.buffer[Cell(new, i - 1)] =
         IF i = n + 1 THEN ch ELSE Unread(kb)[i]
  <2> TAKE i \in 1 .. (n + 1)
  <2>1. i - 1 \in 0 .. (N - 1) /\ i - 1 \in 0 .. N
    BY BufferSize
  <2>2. new.buffer[Cell(new, i - 1)] = IF i - 1 = n THEN ch
                                       ELSE kb.buffer[Cell(kb, i - 1)]
    BY <2>1, <1>9, <1>10
  <2>3. i # n + 1 => i \in 1 .. n
    BY <1>n
  <2> QED BY <1>n, <1>12, <2>2, <2>3
<1>15. Append(Unread(kb), ch) =
         [i \in 1 .. (n + 1) |-> IF i = n + 1 THEN ch ELSE Unread(kb)[i]]
  BY <1>12, <1>n
<1>16. Unread(new) = Append(Unread(kb), ch)
  BY <1>13, <1>14, <1>15
<1> QED BY <1>8, <1>11, <1>16 DEF new

(* A pop takes the oldest character, or nothing from an empty buffer.      *)
LEMMA PopRing ==
  ASSUME NEW kb \in Buffers, NEW n \in 0 .. N, Ring(kb, n)
  PROVE  LET new == keyboard_pop_from_buffer(kb)
         IN  /\ new \in Buffers
             /\ n = 0 => /\ new = kb /\ PopResult(kb) = NUL
                         /\ Unread(kb) = <<>>
             /\ n # 0 => /\ Ring(new, n - 1)
                         /\ Unread(kb) # <<>>
                         /\ PopResult(kb) = Head(Unread(kb))
                         /\ Unread(new) = Tail(Unread(kb))
<1> DEFINE new == keyboard_pop_from_buffer(kb)
<1>1. /\ kb.head = Cell(kb, 0) /\ kb.head \in 0 .. (N - 1)
      /\ kb.buffer \in [Cells -> Chars \cup {NUL}] /\ kb.tail \in Cells
  BY HeadCell, BufferSize DEF Buffers
<1>2. PopResult(kb) = kb.buffer[Cell(kb, 0)]
  BY <1>1 DEF PopResult
<1>3. /\ Unread(kb) = [i \in 1 .. n |-> kb.buffer[Cell(kb, i - 1)]]
      /\ Unread(kb) \in Seq(Chars) /\ Len(Unread(kb)) = n
  BY UnreadOfRing
<1>4. CASE n = 0
  <2>1. kb.buffer[Cell(kb, 0)] = NUL
    BY <1>4, BufferSize DEF Ring
  <2>2. new = kb
    BY <1>1, <2>1 DEF keyboard_pop_from_buffer
  <2>3. Unread(kb) = <<>>
    BY <1>3, <1>4
  <2> QED BY <1>2, <1>4, <2>1, <2>2, <2>3
<1>5. CASE n # 0
  <2>n. n - 1 \in 0 .. N /\ n \in Nat /\ n - 1 \in 0 .. (N - 1)
    BY <1>5, BufferSize
  <2>1. kb.buffer[kb.head] # NUL
    BY <1>1, <2>n DEF Ring
  <2>2. new = [kb EXCEPT !.buffer[kb.head] = NUL, !.head = Advance(@)]
    BY <2>1, Zenon DEF keyboard_pop_from_buffer
  <2>3. /\ new.head = (kb.head + 1) % N
        /\ new.tail = kb.tail
        /\ new.buffer = [kb.buffer EXCEPT ![kb.head] = NUL]
        /\ new = [buffer |-> new.buffer, head |-> new.head,
                  tail |-> new.tail]
    BY <2>2 DEF Buffers, Advance, N
  <2>4. new.head = Cell(kb, 1) /\ Cell(kb, 1) \in Cells
    <3>1. 0 \in 0 .. (N - 1) /\ 1 \in 0 .. N /\ 0 + 1 = 1
      BY BufferSize
    <3>2. (Cell(kb, 0) + 1) % N = Cell(kb, 0 + 1)
      BY <3>1, NextCell
    <3> QED BY <1>1, <2>3, <3>1, <3>2, CellIs
  <2>5. new \in Buffers
    BY <1>1, <2>3, <2>4 DEF Buffers
  <2> HIDE DEF new
  <2>6. ASSUME NEW i \in 0 .. (N - 1)
        PROVE  Cell(new, i) = IF i = N - 1 THEN kb.head ELSE Cell(kb, i + 1)
    <3> DEFINE h == kb.head
               g == new.head
    <3>0. i \in 0 .. N /\ i + 1 \in 0 .. N /\ 1 \in 0 .. N
      BY BufferSize
    <3>1. g = IF h + 1 < N THEN h + 1 ELSE h + 1 - N
      BY <2>4, <3>0, CellIs
    <3>2. Cell(new, i) = IF g + i < N THEN g + i ELSE g + i - N
      BY <2>5, <3>0, CellIs
    <3>3. Cell(kb, i + 1) = IF h + (i + 1) < N THEN h + (i + 1)
                            ELSE h + (i + 1) - N
      BY <3>0, CellIs
    <3>4. h \in 0 .. (N - 1)
      BY <1>1
    <3> HIDE DEF h, g
    <3>5. Cell(new, i) = IF i = N - 1 THEN h ELSE Cell(kb, i + 1)
      BY <3>1, <3>2, <3>3, <3>4, BufferSize
    <3> QED BY <3>5 DEF h
  <2>7. ASSUME NEW i \in 0 .. (N - 1)
        PROVE  new.buffer[Cell(new, i)] =
                 IF i = N - 1 THEN NUL ELSE kb.buffer[Cell(kb, i + 1)]
    <3>1. CASE i = N - 1
      BY <1>1, <2>3, <2>6, <3>1, BufferSize
    <3>2. CASE i # N - 1
      <4>1. i + 1 \in 0 .. (N - 1) /\ i + 1 \in 0 .. N /\ i + 1 # 0
            /\ 0 \in 0 .. (N - 1)
        BY <3>2, BufferSize
      <4>2. Cell(kb, i + 1) # kb.head /\ Cell(kb, i + 1) \in Cells
        BY <1>1, <4>1, CellsDiffer, CellIs
      <4> QED BY <1>1, <2>3, <2>6, <3>2, <4>2
    <3> QED BY <3>1, <3>2
  <2>8. Ring(new, n - 1)
    <3>1. new.tail = Cell(new, n - 1)
      <4>1. n - 1 = N - 1 => Cell(kb, n) = kb.head
        <5> HAVE n - 1 = N - 1
        <5>1. n = N /\ N \in 0 .. N
          BY <2>n, BufferSize
        <5>2. Cell(kb, N) = IF kb.head + N < N THEN kb.head + N
                            ELSE kb.head + N - N
          BY <5>1, CellIs
        <5> QED BY <1>1, <5>1, <5>2, BufferSize
      <4>2. kb.tail = Cell(kb, n) /\ (n - 1) + 1 = n
        BY <2>n DEF Ring
      <4> QED BY <2>3, <2>6, <2>n, <4>1, <4>2
    <3>2. ASSUME NEW i \in 0 .. ((n - 1) - 1)
          PROVE  new.buffer[Cell(new, i)] # NUL
      <4>1. i \in 0 .. (N - 1) /\ i # N - 1 /\ i + 1 \in 0 .. (n - 1)
        BY <2>n, BufferSize
      <4> QED BY <2>7, <4>1 DEF Ring
    <3>3. ASSUME NEW i \in (n - 1) .. (N - 1)
          PROVE  new.buffer[Cell(new, i)] = NUL
      <4>1. i \in 0 .. (N - 1) /\ (i # N - 1 => i + 1 \in n .. (N - 1))
        BY <2>n, BufferSize
      <4> QED BY <2>7, <4>1 DEF Ring
    <3> QED BY <3>1, <3>2, <3>3 DEF Ring
  <2>9. Unread(new) = [i \in 1 .. (n - 1) |-> new.buffer[Cell(new, i - 1)]]
    BY <2>n, <2>5, <2>8, UnreadOfRing
  <2>10. ASSUME NEW i \in 1 .. (n - 1)
         PROVE  new.buffer[Cell(new, i - 1)] = Unread(kb)[i + 1]
    <3>1. /\ i - 1 \in 0 .. (N - 1) /\ i - 1 # N - 1 /\ (i - 1) + 1 = i
          /\ i + 1 \in 1 .. n /\ (i + 1) - 1 = i
      BY <2>n, BufferSize
    <3>2. new.buffer[Cell(new, i - 1)] = kb.buffer[Cell(kb, i)]
      BY <2>7, <3>1
    <3>3. Unread(kb)[i + 1] = kb.buffer[Cell(kb, (i + 1) - 1)]
      BY <1>3, <3>1
    <3> QED BY <3>1, <3>2, <3>3
  <2>11. Tail(Unread(kb)) = [i \in 1 .. (n - 1) |-> Unread(kb)[i + 1]]
    BY <1>3, <2>n, <1>5
  <2>12. Unread(new) = Tail(Unread(kb))
    BY <2>9, <2>10, <2>11
  <2>13. Unread(kb) # <<>> /\ PopResult(kb) = Head(Unread(kb))
    <3>1. 1 \in 1 .. n /\ 1 - 1 = 0
      BY <2>n, <1>5
    <3>2. Unread(kb)[1] = kb.buffer[Cell(kb, 0)]
      BY <1>3, <3>1
    <3> QED BY <1>2, <1>3, <1>5, <3>2
  <2> QED BY <1>5, <2>5, <2>8, <2>12, <2>13 DEF new
<1> QED BY <1>4, <1>5
-----------------------------------------------------------------------------
(* Every key that is not released leads to a character or to NUL.          *)
LEMMA CharOfKey ==
  ASSUME NEW scancode \in Scancodes, scancode # "released",
         NEW caps \in BOOLEAN
  PROVE  InputChar(scancode, caps) \in Chars \cup {NUL}
<1> DEFINE ch == ps2_scancode_to_char(scancode)
<1>1. scancode # "return" => ch \in {"A", "1", NUL, "-ERR_INVARG"}
  <2>1. scancode \in AllScancodes
    BY KeyboardAssumption
  <2>2. CASE scancode = "letter"
    BY <2>2 DEF ps2_scancode_to_char
  <2>3. CASE scancode = "digit"
    BY <2>3 DEF ps2_scancode_to_char
  <2>4. CASE scancode \in {"caps", "unmapped"}
    BY <2>4 DEF ps2_scancode_to_char
  <2>5. CASE scancode = "beyond_table"
    BY <2>5 DEF ps2_scancode_to_char
  <2> QED BY <2>1, <2>2, <2>3, <2>4, <2>5 DEF AllScancodes
<1> HIDE DEF ch
<1>2. InputChar(scancode, caps) =
        IF scancode = "return" THEN "newline"
        ELSE IF ~caps /\ ch = "A" THEN "a" ELSE ch
  BY Zenon DEF InputChar, ch
<1> QED BY <1>1, <1>2 DEF Chars, NUL

LEMMA BuffersTyped ==
  ASSUME TypeOK
  PROVE  /\ keyboard_buf \in [Processes -> Buffers]
         /\ current_process \in alive /\ current_process \in Processes
  BY DEF TypeOK, Buffers

LEMMA KeyboardInvInit == Init => KeyboardInv
<1> SUFFICES ASSUME Init PROVE KeyboardInv
  OBVIOUS
<1>1. keyboard_buf \in [Processes -> Buffers]
  BY EmptyRing DEF Init
<1>2. TypeOK
  BY <1>1, KeyboardAssumption DEF Init, TypeOK, Buffers
<1>3. Rings
  BY EmptyRing, BufferSize, KeyboardAssumption DEF Init, Rings
<1> QED BY <1>2, <1>3 DEF KeyboardInv, Init

(* The unread characters of a process.                                     *)
KeysOf(p) == IF p \in alive THEN Unread(keyboard_buf[p]) ELSE <<>>

(* The keyboard interrupt for a key that yields the character ch.          *)
Struck(ch) ==
  /\ keyboard_buf' = [keyboard_buf EXCEPT ![current_process] =
                        keyboard_push_to_buffer(@, ch)]
  /\ caps_lock' \in BOOLEAN
  /\ UNCHANGED <<current_process, alive, got>>

(* A key yields no character, or is pushed.                                *)
LEMMA HandlerEffect ==
  ASSUME TypeOK, NEW scancode \in Scancodes,
         ps2_interrupt_handler(scancode)
  PROVE  \/ /\ caps_lock' \in BOOLEAN
            /\ UNCHANGED <<keyboard_buf, current_process, alive, got>>
         \/ \E ch \in Chars : Struck(ch)
<1>0. caps_lock \in BOOLEAN
  BY DEF TypeOK
<1>1. CASE scancode = "released"
  BY <1>0, <1>1 DEF ps2_interrupt_handler
<1>2. CASE scancode # "released"
  <2> DEFINE ch == InputChar(scancode, caps_lock')
  <2>1. /\ caps_lock' = IF scancode = "caps" THEN ~caps_lock ELSE caps_lock
        /\ keyboard_buf' = [keyboard_buf EXCEPT ![current_process] =
                              keyboard_push_to_buffer(@, ch)]
        /\ UNCHANGED <<current_process, alive, got>>
    BY <1>2, Zenon DEF ps2_interrupt_handler
  <2>2. caps_lock' \in BOOLEAN
    BY <1>0, <2>1
  <2>3. ch \in Chars \cup {NUL}
    BY <1>2, <2>2, CharOfKey
  <2> HIDE DEF ch
  <2>4. CASE ch = NUL
    <3>1. keyboard_push_to_buffer(keyboard_buf[current_process], ch) =
            keyboard_buf[current_process]
      BY <2>4, Zenon DEF keyboard_push_to_buffer
    <3>2. keyboard_buf' = keyboard_buf
      BY <2>1, <3>1, BuffersTyped
    <3> QED BY <2>1, <2>2, <3>2
  <2>5. CASE ch \in Chars
    BY <2>1, <2>2, <2>5 DEF Struck
  <2> QED BY <2>3, <2>4, <2>5
<1> QED BY <1>1, <1>2

LEMMA StruckStep ==
  ASSUME KeyboardInv, NEW ch \in Chars, Struck(ch), NoOverrun,
         UnreadCount(keyboard_buf[current_process]) < MaxUnread
  PROVE  /\ KeyboardInv'
         /\ Unread(keyboard_buf[current_process])' =
              Append(Unread(keyboard_buf[current_process]), ch)
<1> USE DEF KeyboardInv
<1> DEFINE kb == keyboard_buf[current_process]
           new == keyboard_push_to_buffer(kb, ch)
<1>1. /\ keyboard_buf \in [Processes -> Buffers]
      /\ current_process \in alive /\ current_process \in Processes
      /\ kb \in Buffers
  BY BuffersTyped
<1>2. PICK n \in 0 .. N : Ring(kb, n)
  BY <1>1 DEF Rings
<1>3. n \in 0 .. (N - 1) /\ n + 1 \in 0 .. N
  <2>1. UnreadCount(kb) = n
    BY <1>1, <1>2, CountOfRing
  <2>2. n < N
    BY <2>1, BufferSize, KeyboardAssumption DEF NoOverrun, N
  <2> QED BY <2>2, BufferSize
<1>4. /\ new \in Buffers /\ Ring(new, n + 1)
      /\ Unread(new) = Append(Unread(kb), ch)
  BY <1>1, <1>2, <1>3, PushRing
<1>5. /\ keyboard_buf' = [keyboard_buf EXCEPT ![current_process] = new]
      /\ caps_lock' \in BOOLEAN
      /\ UNCHANGED <<current_process, alive, got>>
  BY Zenon DEF Struck
<1> HIDE DEF new
<1>6. keyboard_buf'[current_process'] = new
  BY <1>1, <1>5
<1>7. TypeOK'
  <2>1. keyboard_buf' \in [Processes -> Buffers]
    BY <1>1, <1>4, <1>5
  <2> QED BY <1>5, <2>1 DEF TypeOK, Buffers
<1>8. Rings'
  <2>1. ASSUME NEW p \in alive
        PROVE  \E m \in 0 .. N : Ring(keyboard_buf'[p], m)
    <3>1. CASE p = current_process
      BY <1>3, <1>4, <1>5, <1>6, <3>1
    <3>2. CASE p # current_process
      <4>1. keyboard_buf'[p] = keyboard_buf[p]
        BY <1>1, <1>5, <3>2 DEF TypeOK
      <4> QED BY <4>1 DEF Rings
    <3> QED BY <3>1, <3>2
  <2> QED BY <1>5, <2>1 DEF Rings
<1>9. Unread(keyboard_buf[current_process])' = Unread(new)
  BY <1>6
<1> QED BY <1>4, <1>5, <1>7, <1>8, <1>9

LEMMA GetchStep ==
  ASSUME KeyboardInv, GETCH
  PROVE  KeyboardInv'
<1> USE DEF KeyboardInv
<1> DEFINE kb == keyboard_buf[current_process]
           new == keyboard_pop_from_buffer(kb)
<1>1. /\ keyboard_buf \in [Processes -> Buffers]
      /\ current_process \in alive /\ current_process \in Processes
      /\ kb \in Buffers
  BY BuffersTyped
<1>2. PICK n \in 0 .. N : Ring(kb, n)
  BY <1>1 DEF Rings
<1>3. new \in Buffers /\ \E m \in 0 .. N : Ring(new, m)
  <2>1. /\ new \in Buffers
        /\ n = 0 => new = kb
        /\ n # 0 => Ring(new, n - 1)
    BY <1>1, <1>2, PopRing
  <2>2. n # 0 => n - 1 \in 0 .. N
    BY BufferSize
  <2> QED BY <1>2, <2>1, <2>2
<1>4. /\ keyboard_buf' = [keyboard_buf EXCEPT ![current_process] = new]
      /\ got' = PopResult(kb)
      /\ UNCHANGED <<current_process, caps_lock, alive>>
  BY Zenon DEF GETCH
<1> HIDE DEF new
<1>5. TypeOK'
  <2>1. keyboard_buf' \in [Processes -> Buffers]
    BY <1>1, <1>3, <1>4
  <2>2. got' \in Chars \cup {NUL}
    BY <1>1, <1>4 DEF PopResult, Buffers
  <2> QED BY <1>4, <2>1, <2>2 DEF TypeOK, Buffers
<1>6. Rings'
  <2>1. ASSUME NEW p \in alive
        PROVE  \E m \in 0 .. N : Ring(keyboard_buf'[p], m)
    <3>1. CASE p = current_process
      BY <1>1, <1>3, <1>4, <3>1
    <3>2. CASE p # current_process
      <4>1. keyboard_buf'[p] = keyboard_buf[p]
        BY <1>1, <1>4, <3>2 DEF TypeOK
      <4> QED BY <4>1 DEF Rings
    <3> QED BY <3>1, <3>2
  <2> QED BY <1>4, <2>1 DEF Rings
<1> QED BY <1>4, <1>5, <1>6

LEMMA ExecStep ==
  ASSUME KeyboardInv, NEW p \in Processes, EXEC(p)
  PROVE  KeyboardInv'
<1> USE DEF KeyboardInv, EXEC
<1>1. keyboard_buf \in [Processes -> Buffers]
  BY BuffersTyped
<1>2. keyboard_buf' \in [Processes -> Buffers]
  BY <1>1, EmptyRing
<1>3. TypeOK'
  BY <1>2 DEF TypeOK, Buffers
<1>4. ASSUME NEW q \in alive'
      PROVE  \E m \in 0 .. N : Ring(keyboard_buf'[q], m)
  <2>1. CASE q = p
    <3>1. keyboard_buf'[q] = EmptyBuf
      BY <1>1, <2>1
    <3> QED BY <3>1, EmptyRing, BufferSize
  <2>2. CASE q # p
    <3>1. q \in alive /\ keyboard_buf'[q] = keyboard_buf[q]
      BY <1>1, <2>2 DEF TypeOK
    <3> QED BY <3>1 DEF Rings
  <2> QED BY <2>1, <2>2
<1> QED BY <1>3, <1>4 DEF Rings

LEMMA KeyboardInvNext ==
  ASSUME NoOverrun, KeyboardInv, [Next]_vars
  PROVE  KeyboardInv'
<1>1. CASE UNCHANGED vars
  BY <1>1 DEF KeyboardInv, TypeOK, Rings, vars
<1>2. ASSUME UnreadCount(keyboard_buf[current_process]) < MaxUnread,
             NEW scancode \in Scancodes, ps2_interrupt_handler(scancode)
      PROVE  KeyboardInv'
  <2>1. CASE /\ caps_lock' \in BOOLEAN
             /\ UNCHANGED <<keyboard_buf, current_process, alive, got>>
    BY <2>1 DEF KeyboardInv, TypeOK, Rings
  <2>2. CASE \E ch \in Chars : Struck(ch)
    BY <1>2, <2>2, StruckStep
  <2> QED BY <1>2, <2>1, <2>2, HandlerEffect DEF KeyboardInv
<1>3. CASE GETCH
  BY <1>3, GetchStep
<1>4. ASSUME NEW p \in Processes, EXEC(p) PROVE KeyboardInv'
  BY <1>4, ExecStep
<1>5. CASE EXIT
  <2>1. Rings'
    BY <1>5 DEF KeyboardInv, EXIT, Rings
  <2> QED BY <1>5, <2>1 DEF KeyboardInv, EXIT, TypeOK
<1> QED BY <1>1, <1>2, <1>3, <1>4, <1>5 DEF Next

LEMMA KeyboardInvariant == ASSUME NoOverrun PROVE Spec => []KeyboardInv
<1>1. KeyboardInv /\ [Next]_vars => KeyboardInv'
  BY KeyboardInvNext
<1> QED BY <1>1, KeyboardInvInit, PTL DEF Spec

(* The cells that hold a character are those from head up to tail.         *)
THEOREM KeyboardContiguous ==
  ASSUME NoOverrun PROVE Spec => []UnreadIsContiguous
<1>1. KeyboardInv => UnreadIsContiguous
  <2> SUFFICES ASSUME KeyboardInv, NEW p \in alive
               PROVE  LET kb == keyboard_buf[p]
                          n  == UnreadCount(kb)
                      IN  /\ kb.tail = Cell(kb, n)
                          /\ \A i \in n .. (N - 1) :
                               kb.buffer[Cell(kb, i)] = NUL
    BY Zenon DEF UnreadIsContiguous, Cell, N
  <2>1. keyboard_buf[p] \in Buffers
    BY BuffersTyped DEF KeyboardInv, TypeOK
  <2>2. PICK n \in 0 .. N : Ring(keyboard_buf[p], n)
    BY DEF KeyboardInv, Rings
  <2>3. UnreadCount(keyboard_buf[p]) = n
    BY <2>1, <2>2, CountOfRing
  <2> QED BY <2>2, <2>3 DEF Ring
<1> QED BY <1>1, KeyboardInvariant, PTL
-----------------------------------------------------------------------------
(* Types do not depend on the hypothesis.                                  *)
LEMMA AdvanceTyped ==
  ASSUME NEW i \in Cells PROVE Advance(i) \in Cells
<1>1. ASSUME NEW m \in Nat \ {0}, NEW a \in Nat PROVE a % m \in 0 .. (m - 1)
  BY SMT
<1> QED BY <1>1, BufferSize DEF Advance, N

LEMMA PushTyped ==
  ASSUME NEW kb \in Buffers, NEW ch \in Chars
  PROVE  keyboard_push_to_buffer(kb, ch) \in Buffers
<1>1. Advance(kb.tail) \in Cells
  BY AdvanceTyped DEF Buffers
<1> QED BY <1>1 DEF Buffers, keyboard_push_to_buffer

LEMMA PopTyped ==
  ASSUME NEW kb \in Buffers
  PROVE  keyboard_pop_from_buffer(kb) \in Buffers
<1>1. Advance(kb.head) \in Cells
  BY AdvanceTyped DEF Buffers
<1> QED BY <1>1 DEF Buffers, keyboard_pop_from_buffer

(* Buffers hold characters and the indices stay inside the buffer, even if *)
(* keys are struck into full buffers.                                      *)
THEOREM KeyboardTypeSafety == Spec => []TypeOK
<1> DEFINE I == TypeOK /\ Gshell \in alive
<1>1. Init => I
  BY KeyboardInvInit DEF KeyboardInv
<1>2. I /\ [Next]_vars => I'
  <2> SUFFICES ASSUME TypeOK, Gshell \in alive, [Next]_vars
               PROVE  TypeOK' /\ Gshell \in alive'
    OBVIOUS
  <2>0. /\ keyboard_buf \in [Processes -> Buffers]
        /\ current_process \in alive /\ current_process \in Processes
        /\ keyboard_buf[current_process] \in Buffers
    BY BuffersTyped
  <2>1. CASE UNCHANGED vars
    BY <2>1 DEF TypeOK, vars
  <2>2. ASSUME NEW scancode \in Scancodes, ps2_interrupt_handler(scancode)
        PROVE  TypeOK'
    <3>1. CASE /\ caps_lock' \in BOOLEAN
               /\ UNCHANGED <<keyboard_buf, current_process, alive, got>>
      BY <3>1 DEF TypeOK
    <3>2. ASSUME NEW ch \in Chars, Struck(ch) PROVE TypeOK'
      <4>1. keyboard_buf' \in [Processes -> Buffers]
        BY <2>0, <3>2, PushTyped DEF Struck
      <4> QED BY <3>2, <4>1 DEF Struck, TypeOK, Buffers
    <3> QED BY <2>2, <3>1, <3>2, HandlerEffect
  <2>3. CASE GETCH
    <3>1. keyboard_buf' \in [Processes -> Buffers]
      BY <2>0, <2>3, PopTyped DEF GETCH
    <3>2. got' \in Chars \cup {NUL}
      BY <2>0, <2>3 DEF GETCH, PopResult, Buffers
    <3> QED BY <2>3, <3>1, <3>2 DEF GETCH, TypeOK, Buffers
  <2>4. ASSUME NEW p \in Processes, EXEC(p) PROVE TypeOK'
    <3>1. keyboard_buf' \in [Processes -> Buffers]
      BY <2>0, <2>4, EmptyRing DEF EXEC
    <3> QED BY <2>4, <3>1 DEF EXEC, TypeOK, Buffers
  <2>5. CASE EXIT
    BY <2>5 DEF EXIT, TypeOK
  <2>6. TypeOK'
    BY <2>1, <2>2, <2>3, <2>4, <2>5 DEF Next
  <2>7. Gshell \in alive'
    BY DEF Next, vars, ps2_interrupt_handler, GETCH, EXEC, EXIT
  <2> QED BY <2>6, <2>7
<1> QED BY <1>1, <1>2, PTL DEF Spec
-----------------------------------------------------------------------------
(* The refinement of KeyFifo.  KeysOf(p) is the queue of p.                *)
LEMMA QueueFacts ==
  ASSUME KeyboardInv
  PROVE  /\ current_process \in alive /\ current_process \in Processes
         /\ alive \subseteq Processes /\ Gshell \in alive
         /\ keyboard_buf \in [Processes -> Buffers]
  BY BuffersTyped DEF KeyboardInv, TypeOK

Queues == [p \in Processes |-> KeysOf(p)]

(* The abstract specification over Queues.                                 *)
LEMMA FifoDefs ==
  /\ F!Init <=> /\ Queues = [p \in Processes |-> <<>>]
                /\ current_process = Gshell
                /\ got = NUL
  /\ \A ch : F!Strike(ch) <=>
       /\ Queues' = [Queues EXCEPT ![current_process] = Append(@, ch)]
       /\ UNCHANGED <<current_process, got>>
  /\ F!Getch <=>
       /\ \/ /\ Queues[current_process] = <<>>
             /\ got' = NUL
             /\ Queues' = Queues
          \/ /\ Queues[current_process] # <<>>
             /\ got' = Head(Queues[current_process])
             /\ Queues' = [Queues EXCEPT ![current_process] = Tail(@)]
       /\ UNCHANGED current_process
  /\ \A p : F!Start(p) <=>
       /\ current_process' = p
       /\ Queues' = [Queues EXCEPT ![p] = <<>>]
       /\ UNCHANGED got
  /\ F!End <=>
       /\ Queues' = [Queues EXCEPT ![current_process] = <<>>]
       /\ current_process' = Gshell
       /\ UNCHANGED got
  /\ UNCHANGED F!vars <=> UNCHANGED <<Queues, current_process, got>>
  BY Zenon DEF F!Init, F!Strike, F!Getch, F!Start, F!End, F!vars, Queues, KeysOf

(* A step that changes the queue of one process.                           *)
LEMMA QueueStep ==
  ASSUME NEW p \in Processes, NEW s, KeysOf(p)' = s,
         \A q \in Processes \ {p} : KeysOf(q)' = KeysOf(q)
  PROVE  Queues' = [Queues EXCEPT ![p] = s]
<1>1. Queues' = [q \in Processes |-> KeysOf(q)']
  BY Zenon DEF Queues
<1>2. \A q \in Processes : [Queues EXCEPT ![p] = s][q] =
                              IF q = p THEN s ELSE KeysOf(q)
  BY DEF Queues
<1> QED BY <1>1, <1>2 DEF Queues

(* A key that yields no character is a stuttering step, others a Strike.   *)
LEMMA StrikeRefines ==
  ASSUME NoOverrun, KeyboardInv, NEW scancode \in Scancodes,
         ps2_interrupt_handler(scancode),
         UnreadCount(keyboard_buf[current_process]) < MaxUnread
  PROVE  [F!Next]_(F!vars)
<1>0. TypeOK
  BY DEF KeyboardInv
<1>1. CASE /\ caps_lock' \in BOOLEAN
           /\ UNCHANGED <<keyboard_buf, current_process, alive, got>>
  BY <1>1, FifoDefs DEF Queues, KeysOf
<1>2. ASSUME NEW ch \in Chars, Struck(ch) PROVE F!Strike(ch)
  <2> DEFINE p == current_process
  <2>1. Unread(keyboard_buf[p])' = Append(Unread(keyboard_buf[p]), ch)
    BY <1>2, StruckStep
  <2>2. /\ KeysOf(p) = Unread(keyboard_buf[p])
        /\ KeysOf(p)' = Unread(keyboard_buf[p])'
    BY <1>2, QueueFacts DEF KeysOf, Struck
  <2>3. ASSUME NEW q \in Processes \ {p} PROVE KeysOf(q)' = KeysOf(q)
    <3>1. keyboard_buf'[q] = keyboard_buf[q] /\ alive' = alive
      BY <1>2, QueueFacts DEF Struck
    <3> QED BY <3>1 DEF KeysOf
  <2>4. p \in Processes /\ UNCHANGED <<current_process, got>>
    BY <1>2, QueueFacts DEF Struck
  <2>5. Queues' = [Queues EXCEPT ![p] = Append(KeysOf(p), ch)]
    BY <2>1, <2>2, <2>3, <2>4, QueueStep
  <2>6. Queues[p] = KeysOf(p)
    BY <2>4 DEF Queues
  <2> QED BY <2>4, <2>5, <2>6, FifoDefs
<1> QED BY <1>0, <1>1, <1>2, HandlerEffect DEF F!Next

LEMMA GetchRefines == ASSUME KeyboardInv, GETCH PROVE F!Getch
<1> DEFINE p == current_process
           kb == keyboard_buf[p]
           new == keyboard_pop_from_buffer(kb)
<1>1. p \in Processes /\ p \in alive /\ kb \in Buffers
      /\ keyboard_buf \in [Processes -> Buffers]
  BY QueueFacts
<1>2. PICK n \in 0 .. N : Ring(kb, n)
  BY <1>1 DEF KeyboardInv, Rings
<1>3. /\ n = 0 => /\ new = kb /\ PopResult(kb) = NUL /\ Unread(kb) = <<>>
      /\ n # 0 => /\ Unread(kb) # <<>>
                  /\ PopResult(kb) = Head(Unread(kb))
                  /\ Unread(new) = Tail(Unread(kb))
  BY <1>1, <1>2, PopRing
<1>4. /\ keyboard_buf' = [keyboard_buf EXCEPT ![p] = new]
      /\ got' = PopResult(kb)
      /\ UNCHANGED <<current_process, alive>>
  BY Zenon DEF GETCH
<1> HIDE DEF new
<1>5. KeysOf(p) = Unread(kb) /\ Queues[p] = Unread(kb) /\ KeysOf(p)' = Unread(new)
  <2>1. keyboard_buf'[p'] = new /\ p' \in alive'
    BY <1>1, <1>4
  <2>2. KeysOf(p)' = Unread(keyboard_buf'[p'])
    BY <2>1 DEF KeysOf
  <2> QED BY <1>1, <2>1, <2>2 DEF KeysOf, Queues
<1>6. ASSUME NEW q \in Processes \ {p} PROVE KeysOf(q)' = KeysOf(q)
  <2>1. keyboard_buf'[q] = keyboard_buf[q] /\ alive' = alive
    BY <1>1, <1>4
  <2> QED BY <2>1 DEF KeysOf
<1>7. Queues' = [Queues EXCEPT ![p] = Unread(new)]
  <2>1. \A q \in Processes \ {current_process} : KeysOf(q)' = KeysOf(q)
    BY <1>6
  <2> QED BY <1>1, <1>4, <1>5, <2>1, QueueStep
<1>8. CASE n = 0
  <2>1. Queues' = Queues
    BY <1>3, <1>5, <1>7, <1>8 DEF Queues
  <2> QED BY <1>3, <1>4, <1>5, <1>8, <2>1, FifoDefs
<1>9. CASE n # 0
  <2>1. Queues' = [Queues EXCEPT ![p] = Tail(@)]
    BY <1>3, <1>5, <1>7, <1>9
  <2> QED BY <1>3, <1>4, <1>5, <1>9, <2>1, FifoDefs
<1> QED BY <1>8, <1>9

LEMMA ExecRefines ==
  ASSUME KeyboardInv, NEW p \in Processes, EXEC(p)
  PROVE  F!Start(p) /\ p # Gshell
<1>1. KeysOf(p)' = <<>>
  BY QueueFacts, EmptyUnread DEF EXEC, KeysOf
<1>2. ASSUME NEW q \in Processes \ {p} PROVE KeysOf(q)' = KeysOf(q)
  <2>1. keyboard_buf'[q] = keyboard_buf[q] /\ (q \in alive' <=> q \in alive)
    BY QueueFacts DEF EXEC
  <2> QED BY <2>1 DEF KeysOf
<1>3. Queues' = [Queues EXCEPT ![p] = <<>>]
  BY <1>1, <1>2, QueueStep
<1>4. p # Gshell
  BY QueueFacts DEF EXEC
<1> QED BY <1>3, <1>4, FifoDefs DEF EXEC

LEMMA ExitRefines ==
  ASSUME KeyboardInv, EXIT
  PROVE  F!End /\ current_process # Gshell
<1> DEFINE gone == [q \in Processes |->
                      IF q = current_process THEN <<>> ELSE KeysOf(q)]
<1>1. \A q \in Processes : KeysOf(q)' = gone[q]
  BY QueueFacts DEF EXIT, KeysOf
<1>2. Queues' = [q \in Processes |-> KeysOf(q)']
  BY Zenon DEF Queues
<1>3. Queues' = [Queues EXCEPT ![current_process] = <<>>]
  BY <1>1, <1>2 DEF Queues
<1> QED BY <1>3, FifoDefs DEF EXIT

LEMMA FifoStep ==
  ASSUME NoOverrun, KeyboardInv, [Next]_vars
  PROVE  [F!Next]_(F!vars)
<1>1. CASE UNCHANGED vars
  BY <1>1, FifoDefs DEF vars, Queues, KeysOf
<1>2. CASE /\ UnreadCount(keyboard_buf[current_process]) < MaxUnread
           /\ \E scancode \in Scancodes : ps2_interrupt_handler(scancode)
  BY <1>2, StrikeRefines
<1>3. CASE GETCH
  BY <1>3, GetchRefines DEF F!Next
<1>4. CASE \E p \in Processes : EXEC(p)
  BY <1>4, ExecRefines DEF F!Next
<1>5. CASE EXIT
  BY <1>5, ExitRefines DEF F!Next
<1> QED BY <1>1, <1>2, <1>3, <1>4, <1>5 DEF Next

(* Keys reach the process that was current when they were struck, once and *)
(* in order: the ring buffers implement a queue per process.               *)
THEOREM KeyboardImplementsFifo ==
  ASSUME NoOverrun PROVE Spec => KeysInOrder
<1>1. Init => F!Init
  <2> SUFFICES ASSUME Init PROVE F!Init
    OBVIOUS
  <2>1. \A p \in Processes : KeysOf(p) = <<>>
    BY EmptyUnread DEF Init, KeysOf
  <2>2. Queues = [p \in Processes |-> <<>>]
    BY <2>1 DEF Queues
  <2> QED BY <2>2, FifoDefs DEF Init
<1>2. KeyboardInv /\ [Next]_vars => [F!Next]_(F!vars)
  BY FifoStep
<1> QED BY <1>1, <1>2, KeyboardInvariant, PTL DEF Spec, KeysInOrder, F!Spec
-----------------------------------------------------------------------------
(* Induction: a nonempty set of naturals has a least element, and a set of *)
(* naturals that holds 0 and the successors of its members up to n holds   *)
(* them all.  Predicates are given as sets.                                *)
LEMMA LeastNatural ==
  ASSUME NEW T, T \subseteq Nat, T # {}
  PROVE  \E x \in T : \A y \in T : x <= y
<1> DEFINE R == {ss \in Nat \X Nat : ss[1] < ss[2]}
<1>1. IsWellFoundedOn(R, Nat)
  BY NatLessThanWellFounded DEF OpToRel
<1>2. PICK x \in T : \A y \in T : ~ (<<y, x>> \in R)
  <2> HIDE DEF R
  <2> QED BY <1>1, WFMin
<1>3. ASSUME NEW y \in T PROVE x <= y
  <2>1. ~ (<<y, x>> \in R)
    BY <1>2
  <2>2. y < x => <<y, x>> \in R
    OBVIOUS
  <2> QED BY <2>1, <2>2
<1> QED BY <1>2, <1>3

LEMMA UpTo ==
  ASSUME NEW n \in Nat, NEW S, 0 \in S,
         \A i \in 1 .. n : i - 1 \in S => i \in S
  PROVE  \A i \in 0 .. n : i \in S
<1> SUFFICES ASSUME NEW k \in 0 .. n, k \notin S PROVE FALSE
  OBVIOUS
<1> DEFINE Bad == {i \in 0 .. n : i \notin S}
<1>1. PICK i \in Bad : \A j \in Bad : i <= j
  <2>1. Bad \subseteq Nat /\ k \in Bad
    OBVIOUS
  <2> HIDE DEF Bad
  <2> QED BY <2>1, LeastNatural
<1>2. i \in 1 .. n /\ i - 1 \in 0 .. n /\ ~(i <= i - 1)
  BY <1>1
<1>3. i - 1 \in S
  BY <1>1, <1>2
<1> QED BY <1>1, <1>2, <1>3

(* A recursive function over 0 .. n exists.                                *)
IsRecursive(g, n, x, Rec) ==
  g = [i \in 0 .. n |-> IF i = 0 THEN x ELSE Rec[i][g[i - 1]]]

LEMMA RecursionExists ==
  ASSUME NEW n \in Nat, NEW M, NEW x \in M, NEW Rec \in [1 .. n -> [M -> M]]
  PROVE  \E g \in [0 .. n -> M] : IsRecursive(g, n, x, Rec)
<1> DEFINE Good(k, g) == /\ g \in [0 .. k -> M]
                         /\ g[0] = x
                         /\ \A i \in 1 .. k : g[i] = Rec[i][g[i - 1]]
           S == {k \in 0 .. n : \E g : Good(k, g)}
<1>1. 0 \in S
  <2>1. Good(0, [i \in 0 .. 0 |-> x])
    OBVIOUS
  <2> HIDE DEF Good
  <2> QED BY <2>1
<1>2. ASSUME NEW k \in 1 .. n, k - 1 \in S PROVE k \in S
  <2>1. PICK g : Good(k - 1, g)
    BY <1>2
  <2> DEFINE h == [i \in 0 .. k |-> IF i = k THEN Rec[k][g[k - 1]] ELSE g[i]]
  <2>2. g[k - 1] \in M
    BY <2>1
  <2>3. Rec[k][g[k - 1]] \in M
    BY <2>2
  <2>4. h \in [0 .. k -> M]
    BY <2>1, <2>3
  <2>5. h[0] = x
    BY <2>1
  <2>6. ASSUME NEW i \in 1 .. k PROVE h[i] = Rec[i][h[i - 1]]
    <3>1. i - 1 \in 0 .. k /\ i - 1 # k
      OBVIOUS
    <3>2. h[i - 1] = g[i - 1]
      BY <3>1
    <3>3. CASE i = k
      BY <3>2, <3>3
    <3>4. CASE i # k
      <4>1. i \in 1 .. (k - 1)
        BY <3>4
      <4> QED BY <2>1, <3>2, <3>4, <4>1
    <3> QED BY <3>3, <3>4
  <2>7. Good(k, h)
    BY <2>4, <2>5, <2>6
  <2> HIDE DEF Good
  <2> QED BY <2>7
<1>3. n \in S
  <2> HIDE DEF S
  <2>1. \A i \in 0 .. n : i \in S
    BY <1>1, <1>2, UpTo
  <2> QED BY <2>1
<1>4. PICK g : Good(n, g)
  BY <1>3
<1>5. g = [i \in 0 .. n |-> IF i = 0 THEN x ELSE Rec[i][g[i - 1]]]
  <2>1. \A i \in 0 .. n : g[i] = IF i = 0 THEN x ELSE Rec[i][g[i - 1]]
    <3> TAKE i \in 0 .. n
    <3>1. i # 0 => i \in 1 .. n
      OBVIOUS
    <3> QED BY <1>4, <3>1
  <2> QED BY <1>4, <2>1
<1> QED BY <1>4, <1>5 DEF IsRecursive
-----------------------------------------------------------------------------
(* The page on which a text is set out.                                    *)
ScreenCells == 0 .. (Rows * VGA_WIDTH - 1)
ShownChars == Letters \cup {RETURN, "g", ">", " ", "!"}
Contents == ShownChars \cup {Garbage}

(* Behind the end of the text a page is blank.                             *)
Pages ==
  {p \in [end : Nat, cell : [ScreenCells -> Contents]] :
     \A i \in ScreenCells : i >= p.end => p.cell[i] = " "}

LEMMA PageTypes ==
  /\ VGA_WIDTH \in Nat \ {0} /\ Rows \in Nat \ {0}
  /\ CursorModulus \in Nat /\ CursorModulus > 2
  /\ ScreenCells \subseteq Nat /\ " " \in Contents
<1>1. /\ VGA_WIDTH \in Nat \ {0} /\ Rows \in Nat \ {0}
      /\ CursorModulus \in Nat /\ CursorModulus > 2
  BY ConsoleAssumption
<1>2. ScreenCells \subseteq Nat
  BY DEF ScreenCells
<1>3. " " \in Contents
  BY DEF Contents, ShownChars
<1> QED BY <1>1, <1>2, <1>3

LEMMA RowsBegin ==
  ASSUME NEW w \in Nat \ {0}, NEW y \in Nat, NEW x \in 0 .. (w - 1)
  PROVE  /\ y * w + x \in Nat /\ (y * w + x) \div w = y
         /\ (y + 1) * w = y * w + w
         /\ (y + 1) * w \in Nat
<1>1. (y + 1) * w = y * w + w /\ y * w \in Nat
  OBVIOUS
<1>2. \A a \in Nat : a \div w \in Nat /\ w * (a \div w) <= a
                      /\ a < w * (a \div w) + w
  OBVIOUS
<1> QED BY <1>1, <1>2

LEMMA SetOutFacts ==
  ASSUME NEW p \in Pages, NEW c \in ShownChars
  PROVE  /\ SetOut(p, c) \in Pages
         /\ SetOut(p, c).end \in Nat /\ SetOut(p, c).end > 0
         /\ c = RETURN => /\ SetOut(p, c).end
                              = (p.end \div VGA_WIDTH + 1) * VGA_WIDTH
                          /\ SetOut(p, c).cell = p.cell
         /\ c # RETURN =>
              /\ SetOut(p, c).end = p.end + 1
              /\ \A i \in ScreenCells : SetOut(p, c).cell[i]
                                        = IF i = p.end THEN c ELSE p.cell[i]
<1>1. /\ p \in [end : Nat, cell : [ScreenCells -> Contents]]
      /\ \A i \in ScreenCells : i >= p.end => p.cell[i] = " "
  BY DEF Pages
<1>2. p.end \in Nat /\ p.cell \in [ScreenCells -> Contents]
  BY <1>1
<1>3. ScreenCells \subseteq Nat /\ VGA_WIDTH \in Nat \ {0} /\ c \in Contents
  BY PageTypes DEF Contents
<1>4. CASE c = RETURN
  <2> DEFINE e == (p.end \div VGA_WIDTH + 1) * VGA_WIDTH
  <2>1. SetOut(p, c) = [p EXCEPT !.end = e]
    BY <1>4 DEF SetOut
  <2>2. e \in Nat /\ e > p.end
    <3>1. \A a \in Nat, w \in Nat \ {0} :
             /\ (a \div w + 1) * w \in Nat
             /\ (a \div w + 1) * w > a
      <4> TAKE a \in Nat, w \in Nat \ {0}
      <4>1. a \div w \in Nat /\ a < w * (a \div w) + w
        OBVIOUS
      <4> QED BY <4>1
    <3> QED BY <1>2, <1>3, <3>1
  <2> HIDE DEF e
  <2>3. /\ SetOut(p, c) \in [end : Nat, cell : [ScreenCells -> Contents]]
        /\ SetOut(p, c).end = e /\ SetOut(p, c).cell = p.cell
    BY <1>1, <2>1, <2>2
  <2>4. \A i \in ScreenCells : i >= e => p.cell[i] = " "
    <3> TAKE i \in ScreenCells
    <3>1. i >= e => i >= p.end
      BY <1>2, <1>3, <2>2
    <3> QED BY <1>1, <3>1, Zenon
  <2>5. SetOut(p, c) \in Pages
    BY <2>3, <2>4 DEF Pages
  <2> QED BY <1>2, <1>4, <2>2, <2>3, <2>5 DEF e
<1>5. CASE c # RETURN
  <2> DEFINE f == [i \in ScreenCells |-> IF i = p.end THEN c ELSE p.cell[i]]
  <2>1. SetOut(p, c) = [end |-> p.end + 1, cell |-> f]
    BY <1>2, <1>5 DEF SetOut
  <2>2. f \in [ScreenCells -> Contents]
    BY <1>2, <1>3
  <2>4. \A i \in ScreenCells : f[i] = IF i = p.end THEN c ELSE p.cell[i]
    OBVIOUS
  <2> HIDE DEF f
  <2>3. \A i \in ScreenCells : i >= p.end + 1 => f[i] = " "
    <3> TAKE i \in ScreenCells
    <3>1. i >= p.end + 1 => i >= p.end /\ i # p.end
      BY <1>2, <1>3
    <3> QED BY <1>1, <2>4, <3>1, Zenon
  <2>5. SetOut(p, c) \in Pages
    <3>1. /\ SetOut(p, c) \in [end : Nat, cell : [ScreenCells -> Contents]]
          /\ SetOut(p, c).end = p.end + 1 /\ SetOut(p, c).cell = f
      BY <1>2, <2>1, <2>2
    <3> QED BY <2>3, <3>1, Zenon DEF Pages
  <2> QED BY <1>2, <1>5, <2>1, <2>4, <2>5
<1> QED BY <1>4, <1>5

LEMMA BlankPageFacts ==
  /\ BlankPage \in Pages /\ BlankPage.end = 0
  /\ \A i \in ScreenCells : BlankPage.cell[i] = " "
<1>1. BlankPage = [end |-> 0, cell |-> [i \in ScreenCells |-> " "]]
  BY DEF BlankPage, ScreenCells
<1> QED BY <1>1, PageTypes DEF Pages

(* The recursion of PageOf is a function.                                  *)
LEMMA PageFcn ==
  ASSUME NEW t \in Seq(ShownChars)
  PROVE  \E g \in [0 .. Len(t) -> Pages] :
           /\ g[0] = BlankPage
           /\ \A i \in 1 .. Len(t) : g[i] = SetOut(g[i - 1], t[i])
           /\ PageOf(t) = g[Len(t)]
<1> DEFINE n == Len(t)
           Rec == [i \in 1 .. n |-> [x \in Pages |-> SetOut(x, t[i])]]
           Step(g) == [i \in 0 .. n |-> IF i = 0 THEN BlankPage
                                        ELSE SetOut(g[i - 1], t[i])]
           page == CHOOSE g : g = Step(g)
<1>1. n \in Nat /\ BlankPage \in Pages
  <2>1. n \in Nat
    OBVIOUS
  <2> QED BY <2>1, BlankPageFacts, Zenon
<1>2. ASSUME NEW i \in 1 .. n, NEW x \in Pages PROVE SetOut(x, t[i]) \in Pages
  <2>1. t[i] \in ShownChars
    OBVIOUS
  <2> QED BY <2>1, SetOutFacts
<1>3. PageOf(t) = page[n]
  BY Zenon DEF PageOf
<1>4. Rec \in [1 .. n -> [Pages -> Pages]]
  BY <1>2
<1>5. PICK h \in [0 .. n -> Pages] : IsRecursive(h, n, BlankPage, Rec)
  BY <1>1, <1>4, RecursionExists
<1>6. h = Step(h)
  <2>1. ASSUME NEW i \in 0 .. n PROVE h[i] = Step(h)[i]
    <3>1. CASE i = 0
      BY <1>5, <3>1 DEF IsRecursive
    <3>2. CASE i # 0
      <4>1. i \in 1 .. n /\ i - 1 \in 0 .. n
        BY <1>1, <3>2
      <4>2. h[i] = Rec[i][h[i - 1]] /\ h[i - 1] \in Pages
        BY <1>5, <3>2, <4>1 DEF IsRecursive
      <4> QED BY <3>2, <4>1, <4>2
    <3> QED BY <3>1, <3>2
  <2> QED BY <1>5, <2>1
<1>7. page = Step(page)
  <2> HIDE DEF Step
  <2> QED BY <1>6, Zenon
<1> HIDE DEF page
<1>8. ASSUME NEW i \in 1 .. n PROVE page[i] = SetOut(page[i - 1], t[i])
  <2>1. i \in 0 .. n /\ i # 0
    BY <1>1
  <2> QED BY <1>7, <2>1, Zenon
<1>9. page[0] = BlankPage
  BY <1>1, <1>7
<1>10. \A i \in 0 .. n : page[i] \in Pages
  <2> DEFINE S == {i \in 0 .. n : page[i] \in Pages}
  <2>1. 0 \in S
    BY <1>1, <1>9
  <2>2. ASSUME NEW i \in 1 .. n, i - 1 \in S PROVE i \in S
    BY <1>2, <1>8, <2>2
  <2> HIDE DEF S
  <2>3. \A i \in 0 .. n : i \in S
    BY <1>1, <2>1, <2>2, UpTo
  <2> QED BY <2>3 DEF S
<1>11. page \in [0 .. n -> Pages]
  BY <1>7, <1>10
<1> QED BY <1>3, <1>8, <1>9, <1>11

LEMMA PageEmpty == PageOf(<<>>) = BlankPage
<1> DEFINE e == <<>>
<1>1. e \in Seq(ShownChars) /\ Len(e) = 0
  OBVIOUS
<1> HIDE DEF e
<1>2. PICK g : g[0] = BlankPage /\ PageOf(e) = g[Len(e)]
  BY <1>1, PageFcn, Zenon
<1> QED BY <1>1, <1>2 DEF e

(* A character more is set out behind the text.                            *)
LEMMA PageAppend ==
  ASSUME NEW t \in Seq(ShownChars), NEW c \in ShownChars
  PROVE  PageOf(t) \in Pages /\ PageOf(Append(t, c)) = SetOut(PageOf(t), c)
<1> DEFINE n == Len(t)
           v == Append(t, c)
<1>1. /\ v \in Seq(ShownChars) /\ Len(v) = n + 1 /\ v[n + 1] = c
      /\ n \in Nat /\ \A i \in 1 .. n : v[i] = t[i]
  OBVIOUS
<1> HIDE DEF v
<1>2. PICK g \in [0 .. n -> Pages] :
           /\ g[0] = BlankPage
           /\ \A i \in 1 .. n : g[i] = SetOut(g[i - 1], t[i])
           /\ PageOf(t) = g[n]
  BY PageFcn
<1>3. PICK h \in [0 .. Len(v) -> Pages] :
           /\ h[0] = BlankPage
           /\ \A i \in 1 .. Len(v) : h[i] = SetOut(h[i - 1], v[i])
           /\ PageOf(v) = h[Len(v)]
  BY <1>1, PageFcn
<1> HIDE DEF n
<1> DEFINE S == {i \in 0 .. n : h[i] = g[i]}
<1>4. 0 \in S
  BY <1>1, <1>2, <1>3
<1>5. ASSUME NEW i \in 1 .. n, i - 1 \in S PROVE i \in S
  <2>1. i \in 1 .. Len(v) /\ i \in 0 .. n /\ v[i] = t[i] /\ h[i - 1] = g[i - 1]
    BY <1>1, <1>5
  <2> QED BY <1>2, <1>3, <2>1
<1> HIDE DEF S
<1>6. \A i \in 0 .. n : i \in S
  BY <1>1, <1>4, <1>5, UpTo
<1>7. h[n] = g[n] /\ g[n] \in Pages
  <2>1. n \in 0 .. n
    BY <1>1
  <2> QED BY <1>2, <1>6, <2>1 DEF S
<1>8. n + 1 \in 1 .. Len(v) /\ n + 1 - 1 = n
  BY <1>1
<1>9. h[n + 1] = SetOut(h[n], c)
  BY <1>1, <1>3, <1>8
<1> QED BY <1>1, <1>2, <1>3, <1>7, <1>9 DEF v
-----------------------------------------------------------------------------
(* The display.                                                            *)
Displays == [cells : [TextCells -> Contents], VGA_BASE : Nat,
             cursor_x : 0 .. (VGA_WIDTH - 1),
             cursor_y : 0 .. (CursorModulus - 1)]

Position(d) == d.cursor_y * VGA_WIDTH + d.cursor_x

LEMMA TimesMonotone ==
  ASSUME NEW w \in Nat, NEW a \in Nat, NEW b \in Nat, a <= b
  PROVE  a * w <= b * w /\ a * w \in Nat /\ b * w \in Nat
<1>1. PICK k \in Nat : b = a + k
  <2>1. b - a \in Nat /\ b = a + (b - a)
    OBVIOUS
  <2> QED BY <2>1
<1>2. (a + k) * w = a * w + k * w /\ k * w \in Nat /\ a * w \in Nat /\ b * w \in Nat
  OBVIOUS
<1> DEFINE p == a * w
           q == k * w
           r == b * w
<1>3. r = p + q /\ p \in Nat /\ q \in Nat
  BY <1>1, <1>2, Zenon
<1> HIDE DEF p, q, r
<1>4. p <= r
  BY <1>3
<1> QED BY <1>2, <1>4 DEF p, r

LEMMA InTextBuffer ==
  ASSUME NEW w \in Nat \ {0}, NEW m \in Nat, NEW y \in 0 .. (m - 1),
         NEW x \in 0 .. (w - 1)
  PROVE  y * w + x \in 0 .. (m * w - 1)
<1>1. (y + 1) * w <= m * w
  <2>1. y + 1 \in Nat /\ y + 1 <= m
    OBVIOUS
  <2> QED BY <2>1, TimesMonotone
<1>2. (y + 1) * w = y * w + w /\ y * w \in Nat /\ m * w \in Nat
  OBVIOUS
<1> QED BY <1>1, <1>2

LEMMA ScreenInBuffer == ScreenCells \subseteq TextCells
<1>1. /\ VGA_WIDTH \in Nat /\ Rows \in Nat /\ CursorModulus \in Nat
      /\ Rows <= CursorModulus
  BY ConsoleAssumption
<1> DEFINE a == Rows * VGA_WIDTH
           b == CursorModulus * VGA_WIDTH
<1>2. a <= b /\ a \in Nat /\ b \in Nat
  BY <1>1, TimesMonotone
<1> HIDE DEF a, b
<1>3. 0 .. (a - 1) \subseteq 0 .. (b - 1)
  BY <1>2
<1> QED BY <1>3 DEF a, b, ScreenCells, TextCells

LEMMA DisplayTypes ==
  ASSUME NEW d \in Displays
  PROVE  /\ d.cells \in [TextCells -> Contents] /\ d.VGA_BASE \in Nat
         /\ d.cursor_x \in 0 .. (VGA_WIDTH - 1)
         /\ d.cursor_y \in 0 .. (CursorModulus - 1)
         /\ d.cursor_x \in Nat /\ d.cursor_y \in Nat
<1>1. /\ d.cells \in [TextCells -> Contents] /\ d.VGA_BASE \in Nat
      /\ d.cursor_x \in 0 .. (VGA_WIDTH - 1)
      /\ d.cursor_y \in 0 .. (CursorModulus - 1)
  BY DEF Displays
<1>2. \A a \in Nat : \A i \in 0 .. (a - 1) : i \in Nat
  OBVIOUS
<1>3. VGA_WIDTH \in Nat /\ CursorModulus \in Nat
  BY PageTypes
<1> QED BY <1>1, <1>2, <1>3, Zenon

LEMMA PositionFacts ==
  ASSUME NEW d \in Displays
  PROVE  /\ Position(d) \in Nat /\ Position(d) \in TextCells
         /\ Position(d) \div VGA_WIDTH = d.cursor_y
         /\ (d.cursor_y + 1) * VGA_WIDTH = d.cursor_y * VGA_WIDTH + VGA_WIDTH
         /\ d.cursor_y * VGA_WIDTH \in Nat
<1> DEFINE y == d.cursor_y
           x == d.cursor_x
<1>1. /\ VGA_WIDTH \in Nat \ {0} /\ CursorModulus \in Nat /\ y \in Nat
      /\ x \in 0 .. (VGA_WIDTH - 1) /\ y \in 0 .. (CursorModulus - 1)
  BY PageTypes, DisplayTypes
<1> HIDE DEF x, y
<1>2. /\ y * VGA_WIDTH + x \in Nat /\ (y * VGA_WIDTH + x) \div VGA_WIDTH = y
      /\ (y + 1) * VGA_WIDTH = y * VGA_WIDTH + VGA_WIDTH
  BY <1>1, RowsBegin
<1>3. y * VGA_WIDTH + x \in TextCells
  BY <1>1, InTextBuffer DEF TextCells
<1>4. y * VGA_WIDTH \in Nat
  BY <1>1
<1> QED BY <1>2, <1>3, <1>4 DEF x, y, Position

(* A new row begins below, unless cursor_y starts again.                   *)
LEMMA NewRowFacts ==
  ASSUME NEW d \in Displays
  PROVE  /\ NewRow(d) \in Displays /\ NewRow(d).cells = d.cells
         /\ NewRow(d).VGA_BASE = d.VGA_BASE /\ NewRow(d).cursor_x = 0
         /\ ~(NewRow(d).cursor_y < d.cursor_y) =>
              /\ NewRow(d).cursor_y = d.cursor_y + 1
              /\ Position(NewRow(d)) = d.cursor_y * VGA_WIDTH + VGA_WIDTH
<1> DEFINE y == d.cursor_y
           z == (y + 1) % CursorModulus
           e == NewRow(d)
<1>1. /\ VGA_WIDTH \in Nat \ {0} /\ CursorModulus \in Nat /\ CursorModulus > 2
      /\ y \in 0 .. (CursorModulus - 1)
  BY PageTypes, DisplayTypes
<1>2. z \in 0 .. (CursorModulus - 1) /\ (~(z < y) => z = y + 1)
  <2> HIDE DEF y
  <2>1. CASE y + 1 < CursorModulus
    BY <1>1, <2>1
  <2>2. CASE y + 1 = CursorModulus
    BY <1>1, <2>2
  <2> QED BY <1>1, <2>1, <2>2
<1>3. /\ e = [d EXCEPT !.cursor_x = 0, !.cursor_y = z]
      /\ 0 \in 0 .. (VGA_WIDTH - 1)
  BY <1>1 DEF NewRow
<1> HIDE DEF z, e
<1>4. /\ e \in Displays /\ e.cells = d.cells /\ e.VGA_BASE = d.VGA_BASE
      /\ e.cursor_x = 0 /\ e.cursor_y = z
  BY <1>2, <1>3 DEF Displays
<1>5. ASSUME ~(z < y) PROVE Position(e) = y * VGA_WIDTH + VGA_WIDTH
  <2>1. Position(e) = (y + 1) * VGA_WIDTH + 0
    BY <1>2, <1>4, <1>5 DEF Position
  <2>2. (y + 1) * VGA_WIDTH = y * VGA_WIDTH + VGA_WIDTH /\ y * VGA_WIDTH \in Nat
    BY PositionFacts
  <2> HIDE DEF y
  <2> QED BY <1>1, <2>1, <2>2
<1> QED BY <1>2, <1>4, <1>5 DEF e

LEMMA PutFacts ==
  ASSUME NEW d \in Displays, d.VGA_BASE # 0, NEW c \in ShownChars
  PROVE  /\ Put(d, c) \in Displays /\ Put(d, c).VGA_BASE = d.VGA_BASE
         /\ \A i \in TextCells :
              Put(d, c).cells[i] = IF i = Position(d) THEN c ELSE d.cells[i]
         /\ d.cursor_x + 1 # VGA_WIDTH =>
              /\ Put(d, c).cursor_x = d.cursor_x + 1
              /\ Put(d, c).cursor_y = d.cursor_y
         /\ ~(Put(d, c).cursor_y < d.cursor_y) =>
              Position(Put(d, c)) = Position(d) + 1
<1> DEFINE k == Position(d)
           f == [d.cells EXCEPT ![k] = c]
           v == [d EXCEPT !.cells = f]
           x == d.cursor_x
           y == d.cursor_y
           e == Put(d, c)
<1>1. /\ VGA_WIDTH \in Nat \ {0} /\ d.cells \in [TextCells -> Contents]
      /\ x \in 0 .. (VGA_WIDTH - 1) /\ y \in 0 .. (CursorModulus - 1)
      /\ y \in Nat /\ c \in Contents
  BY PageTypes, DisplayTypes DEF Contents
<1>2. k \in TextCells /\ k \in Nat /\ y * VGA_WIDTH \in Nat
      /\ k = y * VGA_WIDTH + x
  BY PositionFacts DEF Position
<1>3. /\ f \in [TextCells -> Contents]
      /\ \A i \in TextCells : f[i] = IF i = k THEN c ELSE d.cells[i]
  BY <1>1, <1>2
<1>4. e = IF x + 1 = VGA_WIDTH THEN NewRow(v) ELSE [v EXCEPT !.cursor_x = x + 1]
  BY <1>2 DEF Put
<1> HIDE DEF f, k, e
<1>5. /\ v \in Displays /\ v.cells = f /\ v.VGA_BASE = d.VGA_BASE
      /\ v.cursor_x = x /\ v.cursor_y = y
  BY <1>3 DEF Displays
<1> HIDE DEF v
<1>6. CASE x + 1 = VGA_WIDTH
  <2>1. /\ e \in Displays /\ e.cells = f /\ e.VGA_BASE = d.VGA_BASE
        /\ ~(e.cursor_y < y) => Position(e) = y * VGA_WIDTH + VGA_WIDTH
    BY <1>4, <1>5, <1>6, NewRowFacts
  <2>2. y * VGA_WIDTH + VGA_WIDTH = k + 1
    <3> HIDE DEF x, y
    <3> QED BY <1>1, <1>2, <1>6
  <2> QED BY <1>3, <1>6, <2>1, <2>2 DEF e, k
<1>7. CASE x + 1 # VGA_WIDTH
  <2>1. x + 1 \in 0 .. (VGA_WIDTH - 1)
    <3> HIDE DEF x
    <3> QED BY <1>1, <1>7
  <2>2. e = [v EXCEPT !.cursor_x = x + 1]
    BY <1>4, <1>7
  <2> HIDE DEF x, y
  <2>3. /\ e \in Displays /\ e.cells = f /\ e.VGA_BASE = d.VGA_BASE
        /\ e.cursor_x = x + 1 /\ e.cursor_y = y
    BY <1>5, <2>1, <2>2 DEF Displays
  <2>4. Position(e) = k + 1
    BY <1>1, <1>2, <2>3 DEF Position
  <2> QED BY <1>3, <1>7, <2>3, <2>4 DEF e, k, x, y
<1> QED BY <1>6, <1>7

LEMMA BackspaceFacts ==
  ASSUME NEW d \in Displays, d.VGA_BASE # 0, d.cursor_x # 0
  PROVE  /\ kbackspace(d) \in Displays /\ kbackspace(d).VGA_BASE = d.VGA_BASE
         /\ kbackspace(d).cursor_y = d.cursor_y
         /\ Position(kbackspace(d)) = Position(d) - 1
         /\ \A i \in TextCells : kbackspace(d).cells[i]
                                  = IF i = Position(d) - 1 THEN " " ELSE d.cells[i]
<1> DEFINE x == d.cursor_x
           y == d.cursor_y
           a == [d EXCEPT !.cursor_x = x - 1]
           b == Put(a, " ")
           e == kbackspace(d)
<1>1. /\ VGA_WIDTH \in Nat \ {0} /\ x \in 0 .. (VGA_WIDTH - 1) /\ x # 0
      /\ y \in Nat /\ y \in 0 .. (CursorModulus - 1)
  BY PageTypes, DisplayTypes
<1>2. Left(x) = x - 1 /\ x - 1 \in 0 .. (VGA_WIDTH - 1) /\ x - 1 + 1 = x
      /\ x # VGA_WIDTH
  <2> HIDE DEF x
  <2>1. (x - 1 + VGA_WIDTH) % VGA_WIDTH = x - 1
    BY <1>1
  <2> QED BY <1>1, <2>1 DEF Left
<1>3. /\ a \in Displays /\ a.VGA_BASE # 0 /\ a.VGA_BASE = d.VGA_BASE
      /\ a.cells = d.cells
      /\ a.cursor_x = x - 1 /\ a.cursor_y = y
  BY <1>2 DEF Displays
<1>4. e = [b EXCEPT !.cursor_x = Left(@)]
  <2>1. [d EXCEPT !.cursor_x = Left(@),
                  !.cursor_y = IF d.cursor_x = 0
                               THEN (@ - 1) % CursorModulus ELSE @] = a
    BY <1>1, <1>2 DEF Displays
  <2> HIDE DEF a
  <2> QED BY <1>1, <2>1 DEF kbackspace
<1>5. " " \in ShownChars
  BY DEF ShownChars
<1> HIDE DEF a, x, y
<1>6. /\ b \in Displays /\ b.VGA_BASE = d.VGA_BASE
      /\ \A i \in TextCells :
           b.cells[i] = IF i = Position(a) THEN " " ELSE d.cells[i]
      /\ b.cursor_x = x /\ b.cursor_y = y
  <2>1. /\ b \in Displays /\ b.VGA_BASE = a.VGA_BASE
        /\ \A i \in TextCells :
             b.cells[i] = IF i = Position(a) THEN " " ELSE a.cells[i]
        /\ a.cursor_x + 1 # VGA_WIDTH =>
              /\ b.cursor_x = a.cursor_x + 1
              /\ b.cursor_y = a.cursor_y
    BY <1>3, <1>5, PutFacts, Zenon
  <2> HIDE DEF b
  <2> QED BY <1>2, <1>3, <2>1, Zenon
<1> HIDE DEF b, e
<1>7. /\ e \in Displays /\ e.VGA_BASE = d.VGA_BASE /\ e.cells = b.cells
      /\ e.cursor_x = x - 1 /\ e.cursor_y = y
  <2> DEFINE z == x - 1
  <2>1. z \in 0 .. (VGA_WIDTH - 1) /\ Left(b.cursor_x) = z
    BY <1>2, <1>6
  <2> HIDE DEF z
  <2>2. e = [b EXCEPT !.cursor_x = z]
    BY <1>4, <2>1
  <2>3. /\ e \in Displays /\ e.VGA_BASE = b.VGA_BASE /\ e.cells = b.cells
        /\ e.cursor_x = z /\ e.cursor_y = b.cursor_y
    BY <1>6, <2>1, <2>2 DEF Displays
  <2> QED BY <1>6, <2>3 DEF z
<1>8. Position(a) = Position(d) - 1 /\ Position(e) = Position(d) - 1
  <2>1. Position(d) = y * VGA_WIDTH + x /\ y * VGA_WIDTH \in Nat
    BY PositionFacts DEF Position, x, y
  <2>2. Position(a) = y * VGA_WIDTH + (x - 1) /\ Position(e) = y * VGA_WIDTH + (x - 1)
    BY <1>3, <1>7 DEF Position
  <2> QED BY <1>1, <2>1, <2>2
<1> QED BY <1>6, <1>7, <1>8 DEF e, y
-----------------------------------------------------------------------------
(* A character reaches the display and the text.                           *)
Shows(d, p) == \A i \in ScreenCells : d.cells[i] = p.cell[i]

LEMMA FrontLast ==
  ASSUME NEW S, NEW t \in Seq(S), t # <<>>
  PROVE  /\ Front(t) \in Seq(S) /\ t[Len(t)] \in S
         /\ t = Append(Front(t), t[Len(t)])
<1>1. Len(t) \in Nat /\ Len(t) >= 1 /\ t[Len(t)] \in S
  OBVIOUS
<1> DEFINE f == Front(t)
           n == Len(t)
           a == Append(f, t[n])
<1>2. /\ f \in Seq(S) /\ Len(f) = n - 1
      /\ \A i \in 1 .. (n - 1) : f[i] = t[i]
  <2> DEFINE m == n - 1
  <2>1. m \in Nat /\ m <= Len(t)
    BY <1>1
  <2> HIDE DEF m
  <2>2. /\ SubSeq(t, 1, m) \in Seq(S) /\ Len(SubSeq(t, 1, m)) = m
        /\ \A i \in 1 .. m : SubSeq(t, 1, m)[i] = t[i]
    BY <2>1
  <2> QED BY <2>2 DEF Front, m
<1> HIDE DEF f
<1>3. a \in Seq(S) /\ Len(a) = n
  BY <1>1, <1>2
<1>4. \A i \in 1 .. n : a[i] = t[i]
  BY <1>1, <1>2
<1> HIDE DEF a
<1>5. a = t
  BY <1>3, <1>4, SeqEqual
<1> QED BY <1>1, <1>2, <1>5 DEF a, f

LEMMA ShownPage ==
  ASSUME NEW t \in Seq(ShownChars)
  PROVE  /\ PageOf(t) \in Pages /\ PageOf(t).end \in Nat
         /\ \A i \in ScreenCells : i >= PageOf(t).end => PageOf(t).cell[i] = " "
         /\ t # <<>> => PageOf(t).end > 0
<1>1. " " \in ShownChars
  BY DEF ShownChars
<1>2. PageOf(t) \in Pages
  BY <1>1, PageAppend
<1>3. t # <<>> => PageOf(t).end > 0
  <2> SUFFICES ASSUME t # <<>> PROVE PageOf(t).end > 0
    OBVIOUS
  <2> DEFINE s == Front(t)
             c == t[Len(t)]
  <2>1. s \in Seq(ShownChars) /\ c \in ShownChars /\ t = Append(s, c)
    BY FrontLast
  <2> HIDE DEF s, c
  <2>2. PageOf(t) = SetOut(PageOf(s), c) /\ PageOf(s) \in Pages
    BY <2>1, PageAppend
  <2> QED BY <2>1, <2>2, SetOutFacts
<1> QED BY <1>2, <1>3 DEF Pages

(* Written and erased characters leave the screen as the page of the text. *)
LEMMA KputcharPage ==
  ASSUME NEW d \in Displays, d.VGA_BASE # 0, NEW t \in Seq(ShownChars),
         Position(d) = PageOf(t).end,
         NEW c \in ShownChars \cup {BACKSPACE},
         NEW e, e = kputchar(d, c), ~(e.cursor_y < d.cursor_y),
         ~(c = BACKSPACE /\ d.cursor_x = 0 /\ d.cursor_y # 0),
         NEW u, u = Typed(t, c)
  PROVE  /\ e \in Displays /\ u \in Seq(ShownChars) /\ e.VGA_BASE = d.VGA_BASE
         /\ Position(e) = PageOf(u).end
         /\ Shows(d, PageOf(t)) => Shows(e, PageOf(u))
<1> DEFINE p == PageOf(t)
<1>1. /\ p \in Pages /\ p.end \in Nat
      /\ \A i \in ScreenCells : i >= p.end => p.cell[i] = " "
      /\ t # <<>> => p.end > 0
  BY ShownPage
<1>0. Position(d) = p.end
  OBVIOUS
<1> HIDE DEF p
<1>2. ScreenCells \subseteq TextCells /\ ScreenCells \subseteq Nat
  BY ScreenInBuffer, PageTypes
<1>3. /\ Position(d) = d.cursor_y * VGA_WIDTH + d.cursor_x
      /\ d.cursor_x \in Nat /\ d.cursor_y \in Nat
      /\ d.cursor_x \in 0 .. (VGA_WIDTH - 1)
      /\ VGA_WIDTH \in Nat \ {0}
      /\ d.cursor_y * VGA_WIDTH \in Nat
      /\ (d.cursor_y + 1) * VGA_WIDTH = d.cursor_y * VGA_WIDTH + VGA_WIDTH
      /\ Position(d) \div VGA_WIDTH = d.cursor_y
  BY PositionFacts, DisplayTypes, PageTypes DEF Position
<1>4. BACKSPACE # RETURN /\ BACKSPACE \notin ShownChars
  BY ConsoleAssumption DEF BACKSPACE, RETURN, ShownChars
<1>8. \A i, j \in Nat : i + j = 0 => j = 0
  OBVIOUS
<1>5. CASE c # BACKSPACE
  <2>1. c \in ShownChars /\ u = Append(t, c)
    BY <1>5 DEF Typed
  <2>2. u \in Seq(ShownChars) /\ PageOf(u) = SetOut(p, c)
    BY <2>1, PageAppend DEF p
  <2>3. /\ c = RETURN => /\ PageOf(u).end
                              = (p.end \div VGA_WIDTH + 1) * VGA_WIDTH
                          /\ PageOf(u).cell = p.cell
        /\ c # RETURN =>
              /\ PageOf(u).end = p.end + 1
              /\ \A i \in ScreenCells : PageOf(u).cell[i]
                                        = IF i = p.end THEN c ELSE p.cell[i]
    <3> DEFINE z == SetOut(p, c)
    <3>1. /\ c = RETURN => /\ z.end = (p.end \div VGA_WIDTH + 1) * VGA_WIDTH
                           /\ z.cell = p.cell
          /\ c # RETURN =>
                /\ z.end = p.end + 1
                /\ \A i \in ScreenCells : z.cell[i]
                                          = IF i = p.end THEN c ELSE p.cell[i]
      BY <1>1, <2>1, SetOutFacts, Zenon
    <3> HIDE DEF z
    <3> QED BY <2>2, <3>1, Zenon DEF z
  <2>4. CASE c = RETURN
    <3>1. e = NewRow(d)
      BY <1>5, <2>4 DEF kputchar
    <3>2. /\ e \in Displays /\ e.cells = d.cells /\ e.VGA_BASE = d.VGA_BASE
          /\ Position(e) = d.cursor_y * VGA_WIDTH + VGA_WIDTH
      BY <3>1, NewRowFacts
    <3>3. Position(e) = PageOf(u).end
      <4>1. PageOf(u).end = (d.cursor_y + 1) * VGA_WIDTH
        BY <1>0, <1>3, <2>3, <2>4, Zenon
      <4> QED BY <1>3, <3>2, <4>1, Zenon
    <3>4. Shows(d, p) => Shows(e, PageOf(u))
      BY <1>0, <2>3, <2>4, <3>2, Zenon DEF Shows
    <3> QED BY <2>2, <3>2, <3>3, <3>4 DEF p
  <2>5. CASE c # RETURN
    <3>1. e = Put(d, c)
      BY <1>5, <2>5 DEF kputchar
    <3>2. /\ e \in Displays /\ e.VGA_BASE = d.VGA_BASE
          /\ \A i \in TextCells :
               e.cells[i] = IF i = Position(d) THEN c ELSE d.cells[i]
          /\ Position(e) = Position(d) + 1
      BY <2>1, <3>1, PutFacts
    <3>3. Position(e) = PageOf(u).end
      BY <1>0, <2>3, <2>5, <3>2, Zenon
    <3>4. Shows(d, p) => Shows(e, PageOf(u))
      BY <1>0, <1>2, <2>3, <2>5, <3>2, Zenon DEF Shows
    <3> QED BY <2>2, <3>2, <3>3, <3>4 DEF p
  <2> QED BY <2>4, <2>5
<1>6. CASE c = BACKSPACE /\ d.cursor_x = 0
  <2>1. d.cursor_y = 0 /\ e = d
    BY <1>4, <1>6 DEF kputchar, kbackspace
  <2>2. Position(d) = 0
    <3>1. 0 * VGA_WIDTH + 0 = 0
      BY <1>3
    <3> QED BY <1>3, <1>6, <2>1, <3>1, Zenon
  <2>3. t = <<>>
    <3>1. ~(0 > 0)
      OBVIOUS
    <3> QED BY <1>0, <1>1, <2>2, <3>1, Zenon
  <2>4. u = t
    BY <1>6, <2>3 DEF Typed
  <2> QED BY <2>1, <2>4
<1>7. CASE c = BACKSPACE /\ d.cursor_x # 0
  <2>1. e = kbackspace(d)
    BY <1>4, <1>7 DEF kputchar
  <2>2. /\ e \in Displays /\ e.VGA_BASE = d.VGA_BASE
        /\ Position(e) = Position(d) - 1
        /\ \A i \in TextCells :
             e.cells[i] = IF i = Position(d) - 1 THEN " " ELSE d.cells[i]
    BY <1>7, <2>1, BackspaceFacts
  <2>3. t # <<>>
    <3>1. PageOf(<<>>).end = 0
      BY PageEmpty, BlankPageFacts
    <3>2. Position(d) # 0
      BY <1>3, <1>7, <1>8, Zenon
    <3> QED BY <1>0, <3>1, <3>2 DEF p
  <2> DEFINE b == t[Len(t)]
             q == PageOf(u)
  <2>4. u = Front(t)
    BY <1>7, <2>3 DEF Typed
  <2>5. u \in Seq(ShownChars) /\ b \in ShownChars /\ t = Append(u, b)
    BY <2>3, <2>4, FrontLast
  <2> HIDE DEF b
  <2>6. q \in Pages /\ p = SetOut(q, b)
    BY <2>5, PageAppend DEF p
  <2>7. /\ q.end \in Nat
        /\ \A i \in ScreenCells : i >= q.end => q.cell[i] = " "
    BY <2>5, ShownPage
  <2> HIDE DEF q
  <2>8. /\ b = RETURN => p.end = (q.end \div VGA_WIDTH + 1) * VGA_WIDTH
        /\ b # RETURN =>
              /\ p.end = q.end + 1
              /\ \A i \in ScreenCells : p.cell[i]
                                        = IF i = q.end THEN b ELSE q.cell[i]
    BY <2>5, <2>6, SetOutFacts
  <2>9. b # RETURN
    <3> SUFFICES ASSUME b = RETURN PROVE FALSE
      OBVIOUS
    <3> DEFINE k == q.end \div VGA_WIDTH + 1
               w == VGA_WIDTH
               y == d.cursor_y
               x == d.cursor_x
    <3>1. k \in Nat
      <4>1. \A i \in Nat, j \in Nat \ {0} : i \div j + 1 \in Nat
        OBVIOUS
      <4> QED BY <1>3, <2>7, <4>1, Zenon
    <3>2. y * w + x = k * w
      BY <1>0, <1>3, <2>8, Zenon
    <3> HIDE DEF k
    <3>3. (k * w + 0) \div w = k
      <4>1. 0 \in 0 .. (w - 1)
        BY <1>3
      <4> QED BY <1>3, <3>1, <4>1, RowsBegin
    <3>4. k * w + 0 = k * w
      BY <1>3, <3>1
    <3>5. y = k
      BY <1>3, <3>2, <3>3, <3>4
    <3>6. y * w + x = y * w
      BY <3>2, <3>5
    <3> DEFINE v == y * w
    <3>7. v \in Nat /\ v + x = v /\ x \in Nat /\ x # 0
      BY <1>3, <1>7, <3>6
    <3> HIDE DEF v, x
    <3> QED BY <3>7
  <2>10. Position(d) = q.end + 1 /\ Position(d) - 1 = q.end
    <3>1. \A j, k \in Nat : j = k + 1 => j - 1 = k
      OBVIOUS
    <3>2. Position(d) = q.end + 1
      BY <1>0, <2>8, <2>9, Zenon
    <3>3. Position(d) \in Nat
      BY PositionFacts
    <3> QED BY <2>7, <3>1, <3>2, <3>3, Zenon
  <2>11. Shows(d, p) => Shows(e, q)
    <3> SUFFICES ASSUME Shows(d, p), NEW i \in ScreenCells
                 PROVE  e.cells[i] = q.cell[i]
      BY DEF Shows
    <3>1. d.cells[i] = p.cell[i] /\ i \in TextCells /\ i \in Nat
      BY <1>2, Zenon DEF Shows
    <3>2. e.cells[i] = IF i = q.end THEN " " ELSE p.cell[i]
      BY <2>2, <2>10, <3>1
    <3>3. CASE i = q.end
      <4>1. i >= q.end
        <5>1. \A j \in Nat : j >= j
          OBVIOUS
        <5> QED BY <2>7, <3>3, <5>1, Zenon
      <4> QED BY <2>7, <3>2, <3>3, <4>1, Zenon
    <3>4. CASE i # q.end
      BY <2>8, <2>9, <3>2, <3>4
    <3> QED BY <3>3, <3>4
  <2> QED BY <2>2, <2>5, <2>10, <2>11 DEF p, q
<1> QED BY <1>5, <1>6, <1>7

LEMMA Appended ==
  ASSUME NEW S, NEW s \in Seq(S), NEW x \in S
  PROVE  /\ Append(s, x) \in Seq(S) /\ Append(s, x) # <<>>
         /\ Len(s) \in Nat /\ Len(Append(s, x)) = Len(s) + 1
         /\ Append(s, x)[Len(s) + 1] = x
         /\ \A i \in 1 .. Len(s) : Append(s, x)[i] = s[i]
  OBVIOUS

LEMMA SecondCharacter ==
  ASSUME NEW S, NEW a \in Seq(S), NEW y \in S, NEW c \in Seq(S)
  PROVE  Len(a) = 1 /\ Len(c) = 2 /\ c[1] = a[1] /\ c[2] = y
           => Append(a, y) = c
<1>1. /\ Append(a, y) \in Seq(S) /\ Len(Append(a, y)) = Len(a) + 1
      /\ Append(a, y)[Len(a) + 1] = y
      /\ \A i \in 1 .. Len(a) : Append(a, y)[i] = a[i]
  OBVIOUS
<1> SUFFICES ASSUME Len(a) = 1, Len(c) = 2, c[1] = a[1], c[2] = y
             PROVE  Append(a, y) = c
  OBVIOUS
<1>2. 1 + 1 = 2 /\ 1 \in 1 .. 1 /\ \A i \in 1 .. 2 : i = 1 \/ i = 2
  OBVIOUS
<1> DEFINE b == Append(a, y)
<1>3. b \in Seq(S) /\ Len(b) = 2 /\ b[1] = a[1] /\ b[2] = y
  BY <1>1, <1>2, Zenon
<1> HIDE DEF b
<1>4. \A i \in 1 .. Len(b) : b[i] = c[i]
  BY <1>2, <1>3, Zenon
<1>5. b = c
  BY <1>3, <1>4, SeqEqual
<1> QED BY <1>5 DEF b

LEMMA TwoCharacters ==
  ASSUME NEW x, NEW y
  PROVE  Append(<<x>>, y) = <<x, y>>
<1> DEFINE S == {x, y}
           a == <<x>>
           c == <<x, y>>
<1>1. a \in Seq(S) /\ Len(a) = 1 /\ a[1] = x /\ y \in S
  OBVIOUS
<1>2. c \in Seq(S) /\ Len(c) = 2 /\ c[1] = x /\ c[2] = y
  OBVIOUS
<1> HIDE DEF a, c, S
<1>3. Append(a, y) = c
  BY <1>1, <1>2, SecondCharacter
<1> QED BY <1>3 DEF a, c

LEMMA KputsTwo ==
  ASSUME NEW d, NEW a, NEW b
  PROVE  kputs(d, <<a, b>>) = kputchar(kputchar(d, a), b)
<1> DEFINE str == <<a, b>>
           x == kputchar(d, a)
           y == kputchar(x, b)
           Step(g) == [i \in 0 .. Len(str) |-> IF i = 0 THEN d
                                        ELSE kputchar(g[i - 1], str[i])]
           put == CHOOSE g : g = Step(g)
           h == [i \in 0 .. 2 |-> IF i = 0 THEN d ELSE IF i = 1 THEN x ELSE y]
<1>1. Len(str) = 2 /\ str[1] = a /\ str[2] = b
  OBVIOUS
<1>2. kputs(d, str) = put[Len(str)]
  BY Zenon DEF kputs
<1> HIDE DEF str
<1>3. h[0] = d /\ h[1] = x /\ h[2] = y
  OBVIOUS
<1>4. h = Step(h)
  <2>1. \A i \in 0 .. 2 : Step(h)[i] = h[i]
    <3> TAKE i \in 0 .. 2
    <3>1. i = 0 \/ i = 1 \/ i = 2
      OBVIOUS
    <3>2. Step(h)[i] = IF i = 0 THEN d ELSE kputchar(h[i - 1], str[i])
      BY <1>1
    <3>3. 1 - 1 = 0 /\ 2 - 1 = 1 /\ 1 # 0 /\ 2 # 0
      OBVIOUS
    <3> HIDE DEF h, Step
    <3>4. CASE i = 0
      BY <1>3, <3>2, <3>4, Zenon
    <3>5. CASE i = 1
      BY <1>1, <1>3, <3>2, <3>3, <3>5, Zenon
    <3>6. CASE i = 2
      BY <1>1, <1>3, <3>2, <3>3, <3>6, Zenon
    <3> QED BY <3>1, <3>4, <3>5, <3>6
  <2>2. Step(h) = [i \in 0 .. 2 |-> Step(h)[i]]
    BY <1>1
  <2>3. h = [i \in 0 .. 2 |-> h[i]]
    OBVIOUS
  <2> HIDE DEF h, Step
  <2> QED BY <2>1, <2>2, <2>3
<1>5. put = Step(put)
  <2> HIDE DEF Step, h
  <2> QED BY <1>4, Zenon
<1> HIDE DEF put
<1>6. \A i \in 0 .. 2 :
         put[i] = IF i = 0 THEN d ELSE kputchar(put[i - 1], str[i])
  BY <1>1, <1>5, Zenon
<1>7. put[0] = d /\ put[1] = x /\ put[2] = y
  <2>1. 1 - 1 = 0 /\ 2 - 1 = 1 /\ 1 # 0 /\ 2 # 0
        /\ 0 \in 0 .. 2 /\ 1 \in 0 .. 2 /\ 2 \in 0 .. 2
    OBVIOUS
  <2>2. put[0] = d
    BY <1>6, <2>1, Zenon
  <2>3. put[1] = x
    BY <1>1, <1>6, <2>1, <2>2, Zenon
  <2>4. put[2] = y
    BY <1>1, <1>6, <2>1, <2>3, Zenon
  <2> QED BY <2>2, <2>3, <2>4
<1> QED BY <1>1, <1>2, <1>7, Zenon DEF str

(* The messages of the boot: cursor_y cannot start again.                  *)
LEMMA BootPosition ==
  ASSUME NEW d \in Displays, d.cursor_x = 0, d.cursor_y = 0, d.VGA_BASE # 0
  PROVE  LET e == kputs(d, Welcome)
         IN  /\ e \in Displays /\ e.VGA_BASE = d.VGA_BASE
             /\ Position(e) = PageOf(Welcome).end
<1> DEFINE t0 == <<>>
           a == kputchar(d, "g")
           t1 == Typed(t0, "g")
           b == kputchar(a, RETURN)
           t2 == Typed(t1, RETURN)
           w == VGA_WIDTH
<1>1. kputs(d, Welcome) = b
  BY KputsTwo DEF Welcome
<1>2. "g" \in ShownChars /\ RETURN \in ShownChars
      /\ "g" # BACKSPACE /\ "g" # RETURN /\ RETURN # BACKSPACE
  BY DEF ShownChars, RETURN, BACKSPACE
<1>3. t0 \in Seq(ShownChars) /\ t2 = Welcome
  <2>1. t1 = Append(t0, "g") /\ t2 = Append(t1, RETURN)
    BY <1>2, Zenon DEF Typed
  <2>2. t0 \in Seq(ShownChars) /\ Append(t0, "g") = <<"g">>
    OBVIOUS
  <2> DEFINE c == RETURN
  <2> HIDE DEF c
  <2>3. Append(<<"g">>, c) = <<"g", c>>
    BY TwoCharacters
  <2> HIDE DEF t0, t1, t2
  <2> QED BY <2>1, <2>2, <2>3, Zenon DEF Welcome, c
<1>17. /\ a = kputchar(d, "g") /\ t1 = Typed(t0, "g")
       /\ b = kputchar(a, RETURN) /\ t2 = Typed(t1, RETURN)
  OBVIOUS
<1>4. w \in Nat \ {0} /\ CursorModulus \in Nat /\ CursorModulus > 2
  BY PageTypes
<1>5. Position(d) = 0
  <2>1. 0 * w + 0 = 0
    BY <1>4
  <2> QED BY <2>1, Zenon DEF Position
<1>6. Position(d) = PageOf(t0).end
  BY <1>5, PageEmpty, BlankPageFacts
<1> HIDE DEF t0
<1> HIDE DEF a, b, t1, t2
<1>7. a = Put(d, "g")
  BY <1>2, <1>17 DEF kputchar
<1>8. a \in Displays /\ a.VGA_BASE = d.VGA_BASE
  BY <1>2, <1>7, PutFacts, Zenon
<1>9. a.cursor_y \in Nat /\ a.cursor_x \in Nat /\ a.cursor_y \in 0 .. (CursorModulus - 1)
  BY <1>8, DisplayTypes
<1>10. ~(a.cursor_y < d.cursor_y)
  BY <1>9
<1>11. t1 \in Seq(ShownChars) /\ Position(a) = PageOf(t1).end
  <2>1. "g" \in ShownChars \cup {BACKSPACE}
    BY <1>2
  <2> QED BY <1>2, <1>3, <1>6, <1>10, <1>17, <2>1, KputcharPage
<1>12. Position(a) = 1
  <2>1. Position(a) = Position(d) + 1
    BY <1>2, <1>7, <1>10, PutFacts, Zenon
  <2> QED BY <1>5, <2>1
<1>13. a.cursor_y <= 1
  <2> SUFFICES ASSUME ~(a.cursor_y <= 1) PROVE FALSE
    OBVIOUS
  <2> DEFINE y == a.cursor_y
  <2>1. y \in Nat /\ 2 <= y
    BY <1>9
  <2> HIDE DEF y
  <2>2. 2 * w <= y * w /\ y * w \in Nat
    BY <1>4, <2>1, TimesMonotone
  <2>3. y * w + a.cursor_x = 1
    BY <1>12 DEF Position, y
  <2>4. 2 * w >= 2
    BY <1>4
  <2> DEFINE z == y * w
  <2> HIDE DEF z
  <2>5. z \in Nat /\ z >= 2 /\ z + a.cursor_x = 1
    BY <1>4, <2>2, <2>3, <2>4 DEF z
  <2> QED BY <1>9, <2>5
<1> DEFINE r == NewRow(a)
<1>14. b = r
  BY <1>2, <1>17 DEF kputchar
<1>15. ~(b.cursor_y < a.cursor_y)
  <2>1. r.cursor_y = (a.cursor_y + 1) % CursorModulus
    BY <1>8 DEF NewRow, Displays
  <2>2. (a.cursor_y + 1) % CursorModulus = a.cursor_y + 1
    <3>1. \A i \in Nat : i <= 1 => (i + 1) % CursorModulus = i + 1
      BY <1>4
    <3> QED BY <1>9, <1>13, <3>1, Zenon
  <2> QED BY <1>9, <1>14, <2>1, <2>2
<1>16. /\ b \in Displays /\ b.VGA_BASE = a.VGA_BASE
       /\ Position(b) = PageOf(t2).end
  <2>1. RETURN \in ShownChars \cup {BACKSPACE} /\ a.VGA_BASE # 0
    BY <1>2, <1>8
  <2> QED BY <1>2, <1>8, <1>11, <1>15, <1>17, <2>1, KputcharPage
<1> QED BY <1>1, <1>3, <1>8, <1>16
-----------------------------------------------------------------------------
(* The invariant of the console.                                           *)
Shell == {"print", "gets", "exec", "running", "overrun"}

ConsoleTypes ==
  /\ shell_buf \in Seq(Keys) /\ out \in Seq(ShownChars)
  /\ command \in Seq(Keys)
  /\ pc \in {"clear", "init", "boot"} \cup Shell
  /\ pc = "exec" => command # <<>>

ScreenInv ==
  ~astray =>
    /\ display \in Displays /\ text \in Seq(ShownChars)
    /\ pc \in {"clear", "init"} =>
         text = <<>> /\ display.cursor_x = 0 /\ display.cursor_y = 0
    /\ pc \notin {"clear", "init"} => display.VGA_BASE # 0
    /\ Position(display) = PageOf(text).end
    /\ pc \in Shell => Shows(display, PageOf(text))

LEMMA FirstCell ==
  /\ 0 \in 0 .. (VGA_WIDTH - 1) /\ 0 \in 0 .. (CursorModulus - 1)
  /\ 0 * VGA_WIDTH + 0 = 0
<1>1. VGA_WIDTH \in Nat \ {0} /\ CursorModulus \in Nat /\ CursorModulus > 2
  BY PageTypes, Zenon
<1> QED BY <1>1

LEMMA ScreenInvInit ==
  ASSUME ConsoleInit
  PROVE  ConsoleTypes /\ ScreenInv
<1>1. ConsoleTypes
  <2>1. <<>> \in Seq(Keys) /\ <<>> \in Seq(ShownChars)
    OBVIOUS
  <2> QED BY <2>1 DEF ConsoleInit, ConsoleTypes
<1>2. display \in Displays
  <2>1. 0 \in 0 .. (VGA_WIDTH - 1) /\ 0 \in 0 .. (CursorModulus - 1)
    BY FirstCell
  <2>2. Garbage \in Contents
    BY DEF Contents
  <2> QED BY <2>1, <2>2 DEF ConsoleInit, Displays
<1>3. Position(display) = 0
  <2>1. 0 * VGA_WIDTH + 0 = 0
    BY FirstCell
  <2>2. display.cursor_x = 0 /\ display.cursor_y = 0
    BY DEF ConsoleInit
  <2> QED BY <2>1, <2>2, Zenon DEF Position
<1>4. text = <<>> /\ <<>> \in Seq(ShownChars) /\ PageOf(<<>>).end = 0
  <2>1. text = <<>>
    BY DEF ConsoleInit
  <2>2. <<>> \in Seq(ShownChars)
    OBVIOUS
  <2> QED BY <2>1, <2>2, PageEmpty, BlankPageFacts, Zenon
<1>5. pc = "clear" /\ display.cursor_x = 0 /\ display.cursor_y = 0
  BY DEF ConsoleInit
<1> QED BY <1>1, <1>2, <1>3, <1>4, <1>5 DEF ScreenInv, Shell

(* Clearing the display, once VGA_BASE is set.                             *)
LEMMA ClearFacts ==
  ASSUME NEW d \in Displays, NEW e, e = kclear_display(d)
  PROVE  /\ e \in Displays /\ e.VGA_BASE = d.VGA_BASE
         /\ e.cursor_x = 0 /\ e.cursor_y = 0 /\ Position(e) = 0
         /\ d.VGA_BASE # 0 => \A i \in ScreenCells : e.cells[i] = " "
<1> DEFINE f == [i \in TextCells |->
                   IF d.VGA_BASE # 0 /\ i < VGA_WIDTH * VGA_HEIGHT
                   THEN " " ELSE d.cells[i]]
<1>1. e = [d EXCEPT !.cursor_x = 0, !.cursor_y = 0, !.cells = f]
  BY DEF kclear_display
<1>2. d.cells \in [TextCells -> Contents] /\ " " \in Contents
  BY DisplayTypes, PageTypes
<1>3. f \in [TextCells -> Contents]
  BY <1>2
<1>4. 0 \in 0 .. (VGA_WIDTH - 1) /\ 0 \in 0 .. (CursorModulus - 1)
      /\ 0 * VGA_WIDTH + 0 = 0
  BY FirstCell
<1>5. ASSUME d.VGA_BASE # 0, NEW i \in ScreenCells PROVE f[i] = " "
  <2>1. i < VGA_WIDTH * VGA_HEIGHT
    <3>1. VGA_WIDTH \in Nat /\ Rows \in Nat /\ VGA_HEIGHT \in Nat
          /\ Rows <= VGA_HEIGHT
      BY ConsoleAssumption
    <3> DEFINE a == Rows * VGA_WIDTH
               b == VGA_HEIGHT * VGA_WIDTH
    <3>2. a <= b /\ a \in Nat /\ b \in Nat
      BY <3>1, TimesMonotone
    <3>3. i \in 0 .. (a - 1)
      BY <1>5 DEF ScreenCells
    <3>4. b = VGA_WIDTH * VGA_HEIGHT
      BY <3>1
    <3> HIDE DEF a, b
    <3>5. i < b
      BY <3>2, <3>3
    <3> QED BY <3>4, <3>5
  <2>2. i \in TextCells
    BY ScreenInBuffer
  <2> QED BY <1>5, <2>1, <2>2
<1> HIDE DEF f
<1>6. /\ e \in Displays /\ e.VGA_BASE = d.VGA_BASE /\ e.cells = f
      /\ e.cursor_x = 0 /\ e.cursor_y = 0
  BY <1>1, <1>3, <1>4 DEF Displays
<1>7. Position(e) = 0
  BY <1>4, <1>6, Zenon DEF Position
<1> QED BY <1>5, <1>6, <1>7

LEMMA VgaInitFacts ==
  ASSUME NEW d \in Displays
  PROVE  /\ vga_init(d) \in Displays /\ vga_init(d).VGA_BASE # 0
         /\ vga_init(d).cursor_x = 0 /\ vga_init(d).cursor_y = 0
<1>1. 0 \in 0 .. (VGA_WIDTH - 1) /\ 0 \in 0 .. (CursorModulus - 1)
  BY FirstCell
<1> DEFINE e == [d EXCEPT !.VGA_BASE = 1, !.cursor_x = 0, !.cursor_y = 0]
<1>2. e \in Displays
  BY <1>1 DEF Displays
<1>3. e.VGA_BASE = 1 /\ e.cursor_x = 0 /\ e.cursor_y = 0
  BY DEF Displays
<1>4. vga_init(d) = e
  BY DEF vga_init, VGA_TEXT_BUFFER
<1> HIDE DEF e
<1> QED BY <1>2, <1>3, <1>4

LEMMA KeysShown == Keys \subseteq ShownChars \cup {BACKSPACE}
  BY DEF Keys, ShownChars

LEMMA ShowKeeps ==
  ASSUME ScreenInv, pc \in Shell, pc' \in Shell,
         NEW c \in ShownChars \cup {BACKSPACE}, Show(c)
  PROVE  ScreenInv'
<1> SUFFICES ASSUME ~astray'
             PROVE  /\ display' \in Displays /\ text' \in Seq(ShownChars)
                    /\ display'.VGA_BASE # 0
                    /\ Position(display') = PageOf(text').end
                    /\ Shows(display', PageOf(text'))
  BY DEF ScreenInv, Shell
<1>1. /\ ~astray /\ ~(display'.cursor_y < display.cursor_y)
      /\ ~(c = BACKSPACE /\ display.cursor_x = 0 /\ display.cursor_y # 0)
  BY Zenon DEF Show
<1>2. /\ display \in Displays /\ text \in Seq(ShownChars)
      /\ display.VGA_BASE # 0 /\ Position(display) = PageOf(text).end
      /\ Shows(display, PageOf(text))
  BY <1>1 DEF ScreenInv, Shell
<1>3. display' = kputchar(display, c) /\ text' = Typed(text, c)
  BY DEF Show
<1>4. /\ display' \in Displays /\ text' \in Seq(ShownChars)
      /\ display'.VGA_BASE = display.VGA_BASE
      /\ Position(display') = PageOf(text').end
      /\ Shows(display, PageOf(text)) => Shows(display', PageOf(text'))
  BY <1>1, <1>2, <1>3, KputcharPage
<1> QED BY <1>2, <1>4

LEMMA SeqHeadTail ==
  ASSUME NEW S, NEW s \in Seq(S), s # <<>>
  PROVE  Head(s) \in S /\ Tail(s) \in Seq(S)
  OBVIOUS

LEMMA MessagesShown ==
  /\ Welcome \in Seq(ShownChars)
  /\ Welcome \o Prompt \in Seq(ShownChars)
  /\ CouldntOpen \o Prompt \in Seq(ShownChars)
<1>1. {"g", RETURN, ">", " ", "!"} \subseteq ShownChars
  BY DEF ShownChars
<1>2. /\ Welcome \in Seq(ShownChars) /\ Prompt \in Seq(ShownChars)
      /\ CouldntOpen \in Seq(ShownChars)
  <2>1. \A a, b \in ShownChars : <<a, b>> \in Seq(ShownChars)
    OBVIOUS
  <2>2. /\ "g" \in ShownChars /\ RETURN \in ShownChars /\ ">" \in ShownChars
        /\ " " \in ShownChars /\ "!" \in ShownChars
    BY <1>1
  <2> QED BY <2>1, <2>2, Zenon DEF Welcome, Prompt, CouldntOpen
<1>3. \A s, t \in Seq(ShownChars) : s \o t \in Seq(ShownChars)
  OBVIOUS
<1> QED BY <1>2, <1>3

(* Where gets is after a key.                                              *)
LEMMA KeyThen ==
  ASSUME NEW c
  PROVE  /\ AfterKey(c) \in {"overrun", "exec", "gets"}
         /\ AfterKey(c) = "exec" => c = RETURN
         /\ AfterKey(c) = "gets" => c # RETURN
<1>1. CASE ~StoreFits
  BY <1>1 DEF AfterKey
<1>2. CASE StoreFits /\ c = RETURN
  BY <1>2 DEF AfterKey
<1>3. CASE StoreFits /\ c # RETURN
  BY <1>3 DEF AfterKey
<1> QED BY <1>1, <1>2, <1>3

LEMMA ConsoleTypesNext ==
  ASSUME ConsoleTypes, [ConsoleNext]_console_vars
  PROVE  ConsoleTypes'
<1>1. /\ shell_buf \in Seq(Keys) /\ out \in Seq(ShownChars)
      /\ command \in Seq(Keys)
      /\ pc \in {"clear", "init", "boot"} \cup Shell
      /\ pc = "exec" => command # <<>>
  BY DEF ConsoleTypes
<1>2. <<>> \in Seq(Keys) /\ <<>> \in Seq(ShownChars)
  OBVIOUS
<1>3. CASE kernel_start
  BY <1>1, <1>3 DEF kernel_start, ConsoleTypes, Shell
<1>4. CASE BootMessages
  BY <1>1, <1>4 DEF BootMessages, ConsoleTypes, Shell
<1>5. CASE StartShell
  <2>1. out' = Welcome \o Prompt /\ pc' = "print"
        /\ UNCHANGED <<command, shell_buf>>
    BY <1>5 DEF StartShell
  <2>2. out' \in Seq(ShownChars)
    BY <2>1, MessagesShown
  <2> QED BY <1>1, <2>1, <2>2 DEF ConsoleTypes, Shell
<1>6. CASE printf
  <2>1. out' \in Seq(ShownChars)
    BY <1>1, <1>6, SeqHeadTail DEF printf
  <2> QED BY <1>1, <1>6, <2>1 DEF printf, ConsoleTypes, Shell
<1>7. CASE main_gets
  BY <1>1, <1>2, <1>7 DEF main_gets, ConsoleTypes, Shell
<1>8. CASE gets
  <2>1. Head(shell_buf) \in Keys /\ shell_buf' \in Seq(Keys)
    BY <1>1, <1>8, SeqHeadTail DEF gets
  <2>2. command' \in Seq(Keys) /\ command' # <<>>
    BY <1>1, <1>8, <2>1 DEF gets
  <2>3. pc' \in {"overrun", "exec", "gets"}
    BY <1>8, KeyThen DEF gets
  <2> QED BY <1>1, <1>8, <2>1, <2>2, <2>3 DEF gets, ConsoleTypes, Shell
<1>9. CASE gshell_process_command
  <2>1. out' \in Seq(ShownChars)
    BY <1>2, <1>9, MessagesShown DEF gshell_process_command
  <2> QED BY <1>1, <1>9, <2>1 DEF gshell_process_command, ConsoleTypes, Shell
<1>10. CASE \E c \in Keys : StrikeKey(c)
  <2>1. PICK c \in Keys : StrikeKey(c)
    BY <1>10
  <2>2. shell_buf' \in Seq(Keys)
    BY <1>1, <2>1 DEF StrikeKey
  <2> QED BY <1>1, <2>1, <2>2 DEF StrikeKey, ConsoleTypes, Shell
<1>11. CASE UNCHANGED console_vars
  BY <1>1, <1>11 DEF console_vars, ConsoleTypes
<1> QED BY <1>3, <1>4, <1>5, <1>6, <1>7, <1>8, <1>9, <1>10, <1>11
        DEF ConsoleNext

LEMMA ScreenInvNext ==
  ASSUME ConsoleTypes, ScreenInv, [ConsoleNext]_console_vars
  PROVE  ScreenInv'
<1>0. /\ shell_buf \in Seq(Keys) /\ out \in Seq(ShownChars)
      /\ pc \in {"clear", "init", "boot"} \cup Shell
  BY DEF ConsoleTypes
<1>1. CASE kernel_start
  <2> SUFFICES ASSUME ~astray' PROVE ScreenInv'
    BY DEF ScreenInv
  <2>1. /\ ~astray /\ pc = "clear" /\ pc' = "init" /\ text' = text
        /\ display' = kclear_display(display)
    BY <1>1 DEF kernel_start
  <2>2. display \in Displays /\ text = <<>> /\ text \in Seq(ShownChars)
    BY <2>1 DEF ScreenInv
  <2>3. /\ display' \in Displays /\ Position(display') = 0
        /\ display'.cursor_x = 0 /\ display'.cursor_y = 0
    BY <2>1, <2>2, ClearFacts
  <2>4. PageOf(text').end = 0
    BY <2>1, <2>2, PageEmpty, BlankPageFacts
  <2> QED BY <2>1, <2>2, <2>3, <2>4 DEF ScreenInv, Shell
<1>2. CASE BootMessages
  <2> SUFFICES ASSUME ~astray' PROVE ScreenInv'
    BY DEF ScreenInv
  <2> DEFINE d == vga_init(display)
  <2>1. /\ ~astray /\ pc = "init" /\ pc' = "boot" /\ text' = Welcome
        /\ display' = kputs(d, Welcome)
    BY <1>2 DEF BootMessages
  <2>2. display \in Displays
    BY <2>1 DEF ScreenInv
  <2>3. /\ d \in Displays /\ d.cursor_x = 0 /\ d.cursor_y = 0
        /\ d.VGA_BASE # 0
    BY <2>2, VgaInitFacts
  <2> HIDE DEF d
  <2>4. /\ display' \in Displays /\ display'.VGA_BASE = d.VGA_BASE
        /\ Position(display') = PageOf(Welcome).end
    BY <2>1, <2>3, BootPosition
  <2> QED BY <2>1, <2>3, <2>4, MessagesShown DEF ScreenInv, Shell
<1>3. CASE StartShell
  <2> SUFFICES ASSUME ~astray' PROVE ScreenInv'
    BY DEF ScreenInv
  <2>1. /\ ~astray /\ pc = "boot" /\ pc' = "print" /\ text' = <<>>
        /\ display' = kclear_display(display)
    BY <1>3 DEF StartShell
  <2>2. display \in Displays /\ display.VGA_BASE # 0
    BY <2>1 DEF ScreenInv
  <2>3. /\ display' \in Displays /\ Position(display') = 0
        /\ display'.VGA_BASE = display.VGA_BASE
        /\ \A i \in ScreenCells : display'.cells[i] = " "
    BY <2>1, <2>2, ClearFacts
  <2>4. /\ PageOf(text').end = 0
        /\ \A i \in ScreenCells : PageOf(text').cell[i] = " "
    BY <2>1, PageEmpty, BlankPageFacts
  <2>5. text' \in Seq(ShownChars)
    BY <2>1
  <2>6. Shows(display', PageOf(text'))
    BY <2>3, <2>4, Zenon DEF Shows
  <2> QED BY <2>1, <2>2, <2>3, <2>4, <2>5, <2>6 DEF ScreenInv, Shell
<1>4. CASE printf
  <2>1. Head(out) \in ShownChars
    BY <1>0, <1>4, SeqHeadTail DEF printf
  <2>2. pc \in Shell /\ pc' \in Shell /\ Show(Head(out))
    BY <1>4 DEF printf, Shell
  <2> QED BY <2>1, <2>2, ShowKeeps
<1>5. CASE gets
  <2>1. Head(shell_buf) \in ShownChars \cup {BACKSPACE}
    BY <1>0, <1>5, SeqHeadTail, KeysShown DEF gets
  <2>2. pc \in Shell /\ pc' \in Shell /\ Show(Head(shell_buf))
    BY <1>5, KeyThen DEF gets, Shell
  <2> QED BY <2>1, <2>2, ShowKeeps
<1>6. ASSUME UNCHANGED <<display, text, astray>>, pc' = pc \/ {pc, pc'} \subseteq Shell
      PROVE  ScreenInv'
  BY <1>6 DEF ScreenInv, Shell
<1>7. CASE main_gets
  BY <1>6, <1>7 DEF main_gets, Shell
<1>8. CASE gshell_process_command
  BY <1>6, <1>8 DEF gshell_process_command, Shell
<1>9. CASE \E c \in Keys : StrikeKey(c)
  BY <1>6, <1>9 DEF StrikeKey
<1>10. CASE UNCHANGED console_vars
  BY <1>6, <1>10 DEF console_vars
<1> QED BY <1>1, <1>2, <1>3, <1>4, <1>5, <1>7, <1>8, <1>9, <1>10
        DEF ConsoleNext

(* vga.c, PUTCH and the echo of GETCH: whatever is printed and typed, in   *)
(* whatever order, the screen shows the text and the cursor stands behind  *)
(* it, until the cursor goes astray.                                       *)
THEOREM ScreenShowsTextHolds == ConsoleSpec => []ScreenShowsText
<1> DEFINE IInv == ConsoleTypes /\ ScreenInv
<1>1. ConsoleInit => IInv
  BY ScreenInvInit
<1>2. IInv /\ [ConsoleNext]_console_vars => IInv'
  BY ConsoleTypesNext, ScreenInvNext
<1>3. IInv => ScreenShowsText
  <2> SUFFICES ASSUME ScreenInv, ~astray PROVE ScreenShowsText
    BY DEF ScreenShowsText
  <2>1. /\ text \in Seq(ShownChars) /\ Position(display) = Page.end
        /\ pc \in Shell => Shows(display, Page)
    BY DEF ScreenInv, Page
  <2>2. DOMAIN Page.cell = ScreenCells
    BY <2>1, ShownPage DEF Page, Pages
  <2> QED BY <2>1, <2>2 DEF ScreenShowsText, Position, Shows, Shell
<1> QED BY <1>1, <1>2, <1>3, PTL DEF ConsoleSpec
-----------------------------------------------------------------------------
(* The row of the prompt: what is written in row y from its first column,  *)
(* and what is written in the row of the cursor up to the cursor.          *)
Marks == Keys \cup ShownChars

RowAt(d, y, s) ==
  \A j \in 1 .. Len(s) : d.cells[y * VGA_WIDTH + (j - 1)] = s[j]

RowHolds(d, s) == d.cursor_x = Len(s) /\ RowAt(d, d.cursor_y, s)

LEMMA RowPut ==
  ASSUME NEW d \in Displays, d.VGA_BASE # 0, NEW c \in ShownChars,
         NEW s \in Seq(Marks), RowHolds(d, s), Len(s) + 1 < VGA_WIDTH,
         NEW e, e = Put(d, c)
  PROVE  RowHolds(e, Append(s, c))
<1> DEFINE n == Len(s)
           y == d.cursor_y
           w == VGA_WIDTH
           u == Append(s, c)
<1>1. /\ n \in Nat /\ Len(u) = n + 1 /\ u[n + 1] = c
      /\ \A j \in 1 .. n : u[j] = s[j]
  <2>1. c \in Marks
    BY DEF Marks
  <2> QED BY <2>1, Appended
<1>2. /\ w \in Nat \ {0} /\ y \in Nat /\ CursorModulus \in Nat
      /\ y \in 0 .. (CursorModulus - 1)
      /\ d.cursor_x = n /\ Position(d) = y * w + n /\ y * w \in Nat
  BY PageTypes, DisplayTypes, PositionFacts DEF RowHolds, Position
<1>3. n + 1 < w
  OBVIOUS
<1>4. \A j \in 1 .. n : d.cells[y * w + (j - 1)] = s[j]
  BY DEF RowHolds, RowAt
<1>5. /\ \A i \in TextCells : e.cells[i] = IF i = Position(d) THEN c ELSE d.cells[i]
      /\ d.cursor_x + 1 # w => e.cursor_x = d.cursor_x + 1 /\ e.cursor_y = y
  BY PutFacts, Zenon
<1> HIDE DEF n, u, y, w
<1>6. d.cursor_x + 1 # w
  BY <1>1, <1>2, <1>3
<1>7. e.cursor_x = n + 1 /\ e.cursor_y = y
  BY <1>2, <1>5, <1>6
<1>8. ASSUME NEW j \in 1 .. (n + 1) PROVE e.cells[y * w + (j - 1)] = u[j]
  <2> DEFINE x == j - 1
  <2>1. x \in 0 .. (w - 1) /\ (x = n \/ (j \in 1 .. n /\ x # n)) /\ x \in Nat
    BY <1>1, <1>2, <1>3
  <2>2. y * w + x \in TextCells
    BY <1>2, <2>1, InTextBuffer DEF TextCells, w
  <2>3. CASE x = n
    <3>1. j = n + 1
      BY <1>1, <2>3
    <3> QED BY <1>1, <1>2, <1>5, <2>2, <2>3, <3>1
  <2>4. CASE j \in 1 .. n /\ x # n
    <3>1. y * w + x # y * w + n
      <4> DEFINE v == y * w
      <4> HIDE DEF v, x
      <4>1. v + x # v + n
        BY <1>1, <1>2, <2>1, <2>4 DEF v
      <4> QED BY <4>1 DEF v
    <3> QED BY <1>1, <1>2, <1>4, <1>5, <2>2, <2>4, <3>1
  <2> QED BY <2>1, <2>3, <2>4
<1> QED BY <1>1, <1>7, <1>8 DEF RowHolds, RowAt, u, w

(* A backspace behind the first column.                                    *)
LEMMA RowErase ==
  ASSUME NEW d \in Displays, d.VGA_BASE # 0,
         NEW s \in Seq(Marks), s # <<>>, RowHolds(d, s)
  PROVE  RowHolds(kbackspace(d), Front(s))
<1> DEFINE e == kbackspace(d)
           n == Len(s)
           y == d.cursor_y
           w == VGA_WIDTH
           f == Front(s)
<1>1. n \in Nat /\ n >= 1
  OBVIOUS
<1>2. f \in Seq(Marks) /\ Len(f) = n - 1 /\ \A j \in 1 .. (n - 1) : f[j] = s[j]
  <2> DEFINE m == n - 1
  <2>1. m \in Nat /\ m <= Len(s)
    BY <1>1
  <2> HIDE DEF m
  <2>2. /\ SubSeq(s, 1, m) \in Seq(Marks) /\ Len(SubSeq(s, 1, m)) = m
        /\ \A i \in 1 .. m : SubSeq(s, 1, m)[i] = s[i]
    BY <2>1
  <2> QED BY <2>2 DEF Front, m
<1>3. /\ w \in Nat \ {0} /\ y \in Nat /\ CursorModulus \in Nat
      /\ y \in 0 .. (CursorModulus - 1) /\ d.cursor_x \in 0 .. (w - 1)
      /\ d.cursor_x = n /\ Position(d) = y * w + n /\ y * w \in Nat
  BY PageTypes, DisplayTypes, PositionFacts DEF RowHolds, Position
<1>4. \A j \in 1 .. n : d.cells[y * w + (j - 1)] = s[j]
  BY DEF RowHolds, RowAt
<1>5. d.cursor_x # 0
  BY <1>1, <1>3
<1>6. /\ e \in Displays /\ e.cursor_y = y /\ Position(e) = Position(d) - 1
      /\ \A i \in TextCells :
           e.cells[i] = IF i = Position(d) - 1 THEN " " ELSE d.cells[i]
  BY <1>5, BackspaceFacts
<1>7. e.cursor_x \in Nat /\ Position(e) = y * w + e.cursor_x
  <2> HIDE DEF e
  <2> QED BY <1>6, DisplayTypes DEF Position
<1> HIDE DEF n, y, w, e, f
<1>8. e.cursor_x = n - 1
  <2> DEFINE v == y * w
             p == Position(d)
  <2>1. v \in Nat /\ p = v + n /\ v + e.cursor_x = p - 1
    BY <1>3, <1>6, <1>7, Zenon
  <2> HIDE DEF v, p
  <2> QED BY <1>1, <1>7, <2>1
<1>9. ASSUME NEW j \in 1 .. (n - 1) PROVE e.cells[y * w + (j - 1)] = f[j]
  <2> DEFINE x == j - 1
  <2>1. x \in 0 .. (w - 1) /\ x # n - 1 /\ x \in Nat /\ j \in 1 .. n
    BY <1>1, <1>3
  <2>2. y * w + x \in TextCells
    BY <1>3, <2>1, InTextBuffer DEF TextCells, w
  <2>3. y * w + x # Position(d) - 1
    <3> DEFINE v == y * w
    <3> HIDE DEF v, x
    <3>1. v + x # v + n - 1
      BY <1>1, <1>3, <2>1 DEF v
    <3> QED BY <1>3, <3>1 DEF v
  <2>4. e.cells[y * w + x] = d.cells[y * w + x]
    BY <1>6, <2>2, <2>3, Zenon
  <2> QED BY <1>2, <1>4, <1>9, <2>1, <2>4
<1> QED BY <1>2, <1>6, <1>8, <1>9 DEF RowHolds, RowAt, w, e, f

LEMMA RowReturn ==
  ASSUME NEW d \in Displays, NEW s, RowHolds(d, s),
         NEW e, e = NewRow(d), ~(e.cursor_y < d.cursor_y)
  PROVE  e.cursor_y \in Nat /\ e.cursor_y >= 1 /\ RowAt(e, e.cursor_y - 1, s)
<1>1. e.cursor_y = d.cursor_y + 1 /\ e.cells = d.cells /\ d.cursor_y \in Nat
  BY NewRowFacts, DisplayTypes
<1>2. e.cursor_y - 1 = d.cursor_y /\ e.cursor_y \in Nat /\ e.cursor_y >= 1
  BY <1>1
<1> QED BY <1>1, <1>2, Zenon DEF RowHolds, RowAt

(* A row begins.                                                           *)
LEMMA RowEmpty ==
  ASSUME NEW d, d.cursor_x = 0
  PROVE  RowHolds(d, <<>>)
<1>1. Len(<<>>) = 0 /\ 1 .. 0 = {}
  OBVIOUS
<1> QED BY <1>1 DEF RowHolds, RowAt
-----------------------------------------------------------------------------
LEMMA PromptChars ==
  /\ Prompt \in Seq(Marks) /\ Len(Prompt) = 2
  /\ Prompt[1] = ">" /\ Prompt[2] = " "
<1>1. ">" \in Marks /\ " " \in Marks
  BY DEF Marks, ShownChars
<1>2. \A a, b \in Marks : <<a, b>> \in Seq(Marks)
  OBVIOUS
<1>3. Prompt \in Seq(Marks)
  BY <1>1, <1>2, Zenon DEF Prompt
<1> QED BY <1>3 DEF Prompt

LEMMA JoinFacts ==
  ASSUME NEW S, NEW p \in Seq(S), NEW s \in Seq(S)
  PROVE  /\ p \o s \in Seq(S) /\ Len(p \o s) = Len(p) + Len(s)
         /\ \A i \in 1 .. Len(p) : (p \o s)[i] = p[i]
         /\ \A i \in 1 .. Len(s) : (p \o s)[Len(p) + i] = s[i]
<1>1. p \o s \in Seq(S) /\ Len(p \o s) = Len(p) + Len(s)
  OBVIOUS
<1>2. \A i \in 1 .. Len(p) : (p \o s)[i] = p[i]
  OBVIOUS
<1>3. \A i \in 1 .. Len(s) : (p \o s)[Len(p) + i] = s[i]
  OBVIOUS
<1> QED BY <1>1, <1>2, <1>3

(* The line that the user reads: a recursion again.                        *)
LEMMA TypedLine ==
  ASSUME NEW s \in Seq(Marks), NEW c \in Marks
  PROVE  Typed(s, c) \in Seq(Marks) /\ Len(Typed(s, c)) <= Len(s) + 1
<1>1. CASE c # BACKSPACE
  BY <1>1 DEF Typed
<1>2. CASE c = BACKSPACE /\ s = <<>>
  BY <1>2 DEF Typed
<1>3. CASE c = BACKSPACE /\ s # <<>>
  <2> DEFINE f == Front(s)
             b == s[Len(s)]
  <2>1. f \in Seq(Marks) /\ b \in Marks /\ s = Append(f, b)
    BY <1>3, FrontLast
  <2>2. Typed(s, c) = f
    BY <1>3 DEF Typed
  <2> HIDE DEF f, b
  <2>3. Len(Append(f, b)) = Len(f) + 1 /\ Len(f) \in Nat
    BY <2>1
  <2>4. Len(f) <= Len(s) + 1
    BY <2>1, <2>3
  <2> QED BY <2>1, <2>2, <2>4
<1> QED BY <1>1, <1>2, <1>3

LEMMA EditedFcn ==
  ASSUME NEW c \in Seq(Marks)
  PROVE  \E g \in [0 .. Len(c) -> Seq(Marks)] :
           /\ g[0] = Prompt
           /\ \A i \in 1 .. Len(c) : g[i] = Typed(g[i - 1], c[i])
           /\ Edited(c) = g[Len(c)]
<1> DEFINE n == Len(c)
           M == Seq(Marks)
           Rec == [i \in 1 .. n |-> [x \in M |-> Typed(x, c[i])]]
           Step(g) == [i \in 0 .. n |-> IF i = 0 THEN Prompt
                                        ELSE Typed(g[i - 1], c[i])]
           line == CHOOSE g : g = Step(g)
<1>1. n \in Nat /\ Prompt \in M
  <2>1. n \in Nat
    OBVIOUS
  <2> QED BY <2>1, PromptChars, Zenon
<1>2. ASSUME NEW i \in 1 .. n, NEW x \in M PROVE Typed(x, c[i]) \in M
  <2>1. c[i] \in Marks
    OBVIOUS
  <2> QED BY <2>1, TypedLine
<1>3. Edited(c) = line[n]
  BY Zenon DEF Edited
<1> HIDE DEF M
<1>4. Rec \in [1 .. n -> [M -> M]]
  BY <1>2
<1>5. PICK h \in [0 .. n -> M] : IsRecursive(h, n, Prompt, Rec)
  BY <1>1, <1>4, RecursionExists
<1>6. h = Step(h)
  <2>1. ASSUME NEW i \in 0 .. n PROVE h[i] = Step(h)[i]
    <3>1. CASE i = 0
      BY <1>5, <3>1 DEF IsRecursive
    <3>2. CASE i # 0
      <4>1. i \in 1 .. n /\ i - 1 \in 0 .. n
        BY <1>1, <3>2
      <4>2. h[i] = Rec[i][h[i - 1]] /\ h[i - 1] \in M
        BY <1>5, <3>2, <4>1 DEF IsRecursive
      <4> QED BY <3>2, <4>1, <4>2
    <3> QED BY <3>1, <3>2
  <2> QED BY <1>5, <2>1
<1>7. line = Step(line)
  <2> HIDE DEF Step
  <2> QED BY <1>6, Zenon
<1> HIDE DEF line
<1>8. ASSUME NEW i \in 1 .. n PROVE line[i] = Typed(line[i - 1], c[i])
  <2>1. i \in 0 .. n /\ i # 0
    BY <1>1
  <2> QED BY <1>7, <2>1, Zenon
<1>9. line[0] = Prompt
  BY <1>1, <1>7
<1>10. \A i \in 0 .. n : line[i] \in M
  <2> DEFINE S == {i \in 0 .. n : line[i] \in M}
  <2>1. 0 \in S
    BY <1>1, <1>9
  <2>2. ASSUME NEW i \in 1 .. n, i - 1 \in S PROVE i \in S
    BY <1>2, <1>8, <2>2
  <2> HIDE DEF S
  <2>3. \A i \in 0 .. n : i \in S
    BY <1>1, <2>1, <2>2, UpTo
  <2> QED BY <2>3 DEF S
<1>11. line \in [0 .. n -> M]
  BY <1>7, <1>10
<1> QED BY <1>3, <1>8, <1>9, <1>11 DEF M

LEMMA EditedEmpty == Edited(<<>>) = Prompt
<1> DEFINE e == <<>>
<1>1. e \in Seq(Marks) /\ Len(e) = 0
  OBVIOUS
<1> HIDE DEF e
<1>2. PICK g : g[0] = Prompt /\ Edited(e) = g[Len(e)]
  BY <1>1, EditedFcn, Zenon
<1> QED BY <1>1, <1>2 DEF e

(* It is no longer than the prompt and the keys.                           *)
LEMMA EditedLength ==
  ASSUME NEW c \in Seq(Marks)
  PROVE  Edited(c) \in Seq(Marks) /\ Len(Edited(c)) <= Len(c) + 2
<1> DEFINE n == Len(c)
<1>1. n \in Nat
  OBVIOUS
<1>2. PICK g \in [0 .. n -> Seq(Marks)] :
           /\ g[0] = Prompt
           /\ \A i \in 1 .. n : g[i] = Typed(g[i - 1], c[i])
           /\ Edited(c) = g[n]
  BY EditedFcn
<1> DEFINE S == {i \in 0 .. n : Len(g[i]) <= i + 2}
<1>3. 0 \in S
  <2>1. Len(Prompt) = 2
    BY PromptChars, Zenon
  <2>2. Len(g[0]) = 2
    BY <1>2, <2>1, Zenon
  <2>3. 2 <= 0 + 2 /\ 0 \in 0 .. n
    BY <1>1
  <2> QED BY <2>2, <2>3, Zenon
<1>4. ASSUME NEW i \in 1 .. n, i - 1 \in S PROVE i \in S
  <2>1. g[i - 1] \in Seq(Marks) /\ c[i] \in Marks /\ i \in 0 .. n
        /\ i - 1 \in 0 .. n
    BY <1>1, <1>2
  <2>2. Len(Typed(g[i - 1], c[i])) <= Len(g[i - 1]) + 1
        /\ Typed(g[i - 1], c[i]) \in Seq(Marks)
    BY <2>1, TypedLine
  <2>3. Len(g[i - 1]) <= i - 1 + 2 /\ Len(g[i - 1]) \in Nat
    BY <1>4, <2>1
  <2>4. g[i] = Typed(g[i - 1], c[i])
    BY <1>2
  <2> DEFINE a == Len(g[i])
             b == Len(g[i - 1])
  <2>5. a \in Nat /\ b \in Nat /\ a <= b + 1 /\ b <= i - 1 + 2
    BY <2>2, <2>3, <2>4
  <2> HIDE DEF a, b
  <2>6. a <= i + 2
    BY <1>1, <2>5
  <2> QED BY <2>1, <2>6 DEF a
<1> HIDE DEF S
<1>5. \A i \in 0 .. n : i \in S
  BY <1>1, <1>3, <1>4, UpTo
<1>6. n \in S /\ g[n] \in Seq(Marks)
  <2>1. n \in 0 .. n
    BY <1>1
  <2> QED BY <1>2, <1>5, <2>1
<1> QED BY <1>2, <1>6 DEF S

(* A key more.                                                             *)
LEMMA EditedAppend ==
  ASSUME NEW t \in Seq(Marks), NEW c \in Marks
  PROVE  Edited(Append(t, c)) = Typed(Edited(t), c)
<1> DEFINE n == Len(t)
           v == Append(t, c)
           M == Seq(Marks)
<1>1. /\ v \in M /\ Len(v) = n + 1 /\ v[n + 1] = c
      /\ n \in Nat /\ \A i \in 1 .. n : v[i] = t[i]
  OBVIOUS
<1> HIDE DEF v
<1>2. PICK g \in [0 .. n -> M] :
           /\ g[0] = Prompt
           /\ \A i \in 1 .. n : g[i] = Typed(g[i - 1], t[i])
           /\ Edited(t) = g[n]
  BY EditedFcn
<1>3. PICK h \in [0 .. Len(v) -> M] :
           /\ h[0] = Prompt
           /\ \A i \in 1 .. Len(v) : h[i] = Typed(h[i - 1], v[i])
           /\ Edited(v) = h[Len(v)]
  BY <1>1, EditedFcn
<1> HIDE DEF n, M
<1> DEFINE S == {i \in 0 .. n : h[i] = g[i]}
<1>4. 0 \in S
  BY <1>1, <1>2, <1>3
<1>5. ASSUME NEW i \in 1 .. n, i - 1 \in S PROVE i \in S
  <2>1. i \in 1 .. Len(v) /\ i \in 0 .. n /\ v[i] = t[i] /\ h[i - 1] = g[i - 1]
    BY <1>1, <1>5
  <2> QED BY <1>2, <1>3, <2>1
<1> HIDE DEF S
<1>6. \A i \in 0 .. n : i \in S
  BY <1>1, <1>4, <1>5, UpTo
<1>7. h[n] = g[n]
  <2>1. n \in 0 .. n
    BY <1>1
  <2> QED BY <1>6, <2>1 DEF S
<1>8. n + 1 \in 1 .. Len(v) /\ n + 1 - 1 = n
  BY <1>1
<1>9. h[n + 1] = Typed(h[n], c)
  BY <1>1, <1>3, <1>8
<1> QED BY <1>1, <1>2, <1>3, <1>7, <1>9 DEF v

LEMMA FrontAppend ==
  ASSUME NEW S, NEW s \in Seq(S), NEW c \in S
  PROVE  Front(Append(s, c)) = s
<1> DEFINE u == Append(s, c)
           n == Len(s)
<1>1. u \in Seq(S) /\ Len(u) = n + 1 /\ n \in Nat /\ \A i \in 1 .. n : u[i] = s[i]
  OBVIOUS
<1>0. s \in Seq(S) /\ Len(s) = n
  OBVIOUS
<1> HIDE DEF u, n
<1>2. Len(u) - 1 = n
  BY <1>1
<1>3. /\ SubSeq(u, 1, n) \in Seq(S) /\ Len(SubSeq(u, 1, n)) = n
      /\ \A i \in 1 .. n : SubSeq(u, 1, n)[i] = u[i]
  BY <1>1
<1> DEFINE v == SubSeq(u, 1, n)
<1>4. v \in Seq(S) /\ Len(v) = n /\ \A i \in 1 .. n : v[i] = s[i]
  BY <1>1, <1>3
<1> HIDE DEF v
<1>5. v = s
  BY <1>0, <1>4, SeqEqual
<1>6. Front(u) = v
  BY <1>2 DEF Front, v
<1> QED BY <1>5, <1>6 DEF u

(* What printf has still to write ends with the prompt in a row of its     *)
(* own; the row of the cursor holds what is written of the prompt.         *)
Printing ==
  /\ Len(out) >= 3 => out[Len(out) - 2] = RETURN
  /\ Len(out) >= 2 => out[Len(out) - 1] = ">"
  /\ Len(out) >= 1 => out[Len(out)] = " "
  /\ Len(out) = 2 => RowHolds(display, <<>>)
  /\ Len(out) = 1 => RowHolds(display, <<">">>)
  /\ Len(out) = 0 => RowHolds(display, Prompt)

LineInv ==
  (~astray /\ VGA_WIDTH >= 3) =>
    /\ pc = "print" => Printing
    /\ (pc = "gets" /\ Len(command) + 3 <= VGA_WIDTH) =>
            RowHolds(display, Edited(command))
    /\ (pc = "exec" /\ Len(command) + 2 <= VGA_WIDTH) =>
            /\ display.cursor_y \in Nat /\ display.cursor_y >= 1
            /\ RowAt(display, display.cursor_y - 1, Edited(Front(command)))

LEMMA TwoJoined ==
  ASSUME NEW S, NEW m \in Seq(S), NEW p \in Seq(S)
  PROVE  Len(m) = 2 /\ Len(p) = 2 =>
           /\ Len(m \o p) = 4 /\ (m \o p)[2] = m[2]
           /\ (m \o p)[3] = p[1] /\ (m \o p)[4] = p[2]
<1> DEFINE s == m \o p
<1>1. /\ Len(s) = Len(m) + Len(p)
      /\ \A i \in 1 .. Len(m) : s[i] = m[i]
      /\ \A i \in 1 .. Len(p) : s[Len(m) + i] = p[i]
  BY JoinFacts
<1> HIDE DEF s
<1>2. 2 + 2 = 4 /\ 2 + 1 = 3 /\ 1 \in 1 .. 2 /\ 2 \in 1 .. 2
  OBVIOUS
<1>3. Len(m) = 2 /\ Len(p) = 2 =>
        Len(s) = 4 /\ s[2] = m[2] /\ s[3] = p[1] /\ s[4] = p[2]
  BY <1>1, <1>2, Zenon
<1> QED BY <1>3 DEF s

(* A message and the prompt end as Printing says.                          *)
LEMMA MessageFacts ==
  /\ Welcome \in Seq(Marks) /\ Len(Welcome) = 2 /\ Welcome[2] = RETURN
  /\ CouldntOpen \in Seq(Marks) /\ Len(CouldntOpen) = 2
  /\ CouldntOpen[2] = RETURN
<1>1. "g" \in Marks /\ "!" \in Marks /\ RETURN \in Marks
  BY DEF Marks, ShownChars
<1>2. \A b, c \in Marks : /\ <<b, c>> \in Seq(Marks) /\ Len(<<b, c>>) = 2
                          /\ <<b, c>>[2] = c
  OBVIOUS
<1> QED BY <1>1, <1>2, Zenon DEF Welcome, CouldntOpen

LEMMA MessageThenPrompt ==
  ASSUME NEW m \in Seq(Marks), Len(m) = 2, m[2] = RETURN, out' = m \o Prompt
  PROVE  Printing'
<1>1. /\ Prompt \in Seq(Marks) /\ Len(Prompt) = 2
      /\ Prompt[1] = ">" /\ Prompt[2] = " "
  BY PromptChars
<1>2. Len(m) = 2 /\ Len(Prompt) = 2 =>
        /\ Len(m \o Prompt) = 4 /\ (m \o Prompt)[2] = m[2]
        /\ (m \o Prompt)[3] = Prompt[1] /\ (m \o Prompt)[4] = Prompt[2]
  <2>1. Prompt \in Seq(Marks)
    BY <1>1
  <2> QED BY <2>1, TwoJoined
<1>3. /\ Len(m \o Prompt) = 4 /\ (m \o Prompt)[2] = RETURN
      /\ (m \o Prompt)[3] = ">" /\ (m \o Prompt)[4] = " "
  BY <1>1, <1>2
<1> DEFINE s == m \o Prompt
<1>4. out' = s
  OBVIOUS
<1> HIDE DEF s
<1>5. 4 - 2 = 2 /\ 4 - 1 = 3 /\ 4 # 2 /\ 4 # 1 /\ 4 # 0
  OBVIOUS
<1>6. Len(s) = 4 /\ s[2] = RETURN /\ s[3] = ">" /\ s[4] = " "
  BY <1>3 DEF s
<1> QED BY <1>4, <1>5, <1>6, Zenon DEF Printing

(* A character of what printf writes.                                      *)
LEMMA PrintingNext ==
  ASSUME ConsoleTypes, ScreenInv, pc = "print", Printing, printf,
         ~astray', VGA_WIDTH >= 3
  PROVE  Printing'
<1> DEFINE n == Len(out)
           c == Head(out)
           v == Tail(out)
<1>1. out \in Seq(ShownChars) /\ out # <<>> /\ out' = v
  BY DEF ConsoleTypes, printf
<1>2. /\ n \in Nat /\ n >= 1 /\ Len(v) = n - 1 /\ c = out[1] /\ c \in ShownChars
      /\ \A i \in 1 .. (n - 1) : v[i] = out[i + 1]
  BY <1>1
<1>3. /\ n >= 3 => out[n - 2] = RETURN
      /\ n >= 2 => out[n - 1] = ">"
      /\ n >= 1 => out[n] = " "
      /\ n = 2 => RowHolds(display, <<>>)
      /\ n = 1 => RowHolds(display, <<">">>)
  BY DEF Printing
<1>4. /\ display \in Displays /\ display.VGA_BASE # 0
      /\ display' = kputchar(display, c)
      /\ ~(display'.cursor_y < display.cursor_y)
  <2>1. Show(c) /\ pc \in Shell
    BY DEF printf, Shell
  <2>2. /\ ~astray /\ ~(display'.cursor_y < display.cursor_y)
        /\ display' = kputchar(display, c)
    BY <2>1, Zenon DEF Show
  <2> QED BY <2>1, <2>2 DEF ScreenInv, Shell
<1>5. BACKSPACE # RETURN /\ BACKSPACE \notin ShownChars
  BY ConsoleAssumption DEF BACKSPACE, RETURN, ShownChars
<1> HIDE DEF n, c, v
<1>6. /\ n = 3 => c = RETURN
      /\ n = 2 => c = ">"
      /\ n = 1 => c = " "
  <2>1. /\ 3 - 2 = 1 /\ 2 - 1 = 1 /\ 3 >= 3 /\ 2 >= 2 /\ 1 >= 1
    OBVIOUS
  <2> QED BY <1>2, <1>3, <2>1, Zenon
<1>7. /\ n = 3 => display' = NewRow(display)
      /\ n \in {1, 2} => display' = Put(display, c)
  <2>1. ">" # RETURN /\ " " # RETURN /\ ">" # BACKSPACE /\ " " # BACKSPACE
    BY DEF RETURN, BACKSPACE
  <2> QED BY <1>4, <1>5, <1>6, <2>1 DEF kputchar
<1>8. n = 3 => RowHolds(display', <<>>)
  <2> SUFFICES ASSUME n = 3 PROVE RowHolds(display', <<>>)
    OBVIOUS
  <2>1. display'.cursor_x = 0
    BY <1>4, <1>7, NewRowFacts
  <2> QED BY <2>1, RowEmpty
<1>9. n = 2 => RowHolds(display', <<">">>)
  <2> SUFFICES ASSUME n = 2 PROVE RowHolds(display', <<">">>)
    OBVIOUS
  <2> DEFINE s == <<>>
  <2>1. s \in Seq(Marks) /\ Len(s) = 0 /\ Append(s, ">") = <<">">>
    OBVIOUS
  <2>2. RowHolds(display, s) /\ display' = Put(display, ">") /\ ">" \in ShownChars
    BY <1>3, <1>6, <1>7 DEF ShownChars
  <2> HIDE DEF s
  <2>3. Len(s) + 1 < VGA_WIDTH
    <3>1. VGA_WIDTH \in Nat
      BY PageTypes
    <3> QED BY <2>1, <3>1
  <2>4. RowHolds(display', Append(s, ">"))
    BY <1>4, <2>1, <2>2, <2>3, RowPut
  <2> QED BY <2>1, <2>4
<1>10. n = 1 => RowHolds(display', Prompt)
  <2> SUFFICES ASSUME n = 1 PROVE RowHolds(display', Prompt)
    OBVIOUS
  <2> DEFINE s == <<">">>
  <2>1. s \in Seq(Marks) /\ Len(s) = 1
    <3>1. ">" \in Marks
      BY DEF Marks, ShownChars
    <3> QED BY <3>1
  <2>5. Append(s, " ") = Prompt
    <3>1. Append(<<">">>, " ") = <<">", " ">>
      BY TwoCharacters
    <3> QED BY <3>1 DEF Prompt
  <2>2. RowHolds(display, s) /\ display' = Put(display, " ") /\ " " \in ShownChars
    BY <1>3, <1>6, <1>7 DEF ShownChars
  <2>3. Len(s) + 1 < VGA_WIDTH
    <3>1. VGA_WIDTH \in Nat
      BY PageTypes
    <3> HIDE DEF s
    <3> QED BY <2>1, <3>1
  <2> HIDE DEF s
  <2>4. RowHolds(display', Append(s, " "))
    BY <1>4, <2>1, <2>2, <2>3, RowPut
  <2> QED BY <2>4, <2>5
<1>11. /\ Len(v) >= 3 => v[Len(v) - 2] = RETURN
       /\ Len(v) >= 2 => v[Len(v) - 1] = ">"
       /\ Len(v) >= 1 => v[Len(v)] = " "
  <2> DEFINE k == n - 1
  <2>1. Len(v) = k /\ k \in Nat /\ k + 1 = n
    BY <1>2
  <2>2. \A i \in 1 .. k : v[i] = out[i + 1]
    BY <1>2
  <2> HIDE DEF k
  <2>3. k >= 3 => v[k - 2] = RETURN
    <3> SUFFICES ASSUME k >= 3 PROVE v[k - 2] = RETURN
      OBVIOUS
    <3>1. k - 2 \in 1 .. k /\ k - 2 + 1 = n - 2 /\ n >= 3
      BY <2>1
    <3> QED BY <1>3, <2>2, <3>1
  <2>4. k >= 2 => v[k - 1] = ">"
    <3> SUFFICES ASSUME k >= 2 PROVE v[k - 1] = ">"
      OBVIOUS
    <3>1. k - 1 \in 1 .. k /\ k - 1 + 1 = n - 1 /\ n >= 2
      BY <2>1
    <3> QED BY <1>3, <2>2, <3>1
  <2>5. k >= 1 => v[k] = " "
    <3> SUFFICES ASSUME k >= 1 PROVE v[k] = " "
      OBVIOUS
    <3>1. k \in 1 .. k
      BY <2>1
    <3> QED BY <1>2, <1>3, <2>1, <2>2, <3>1
  <2> QED BY <2>1, <2>3, <2>4, <2>5
<1>12. /\ Len(v) = 2 => n = 3
       /\ Len(v) = 1 => n = 2
       /\ Len(v) = 0 => n = 1
  BY <1>2
<1> QED BY <1>1, <1>8, <1>9, <1>10, <1>11, <1>12, Zenon DEF Printing

(* A key that gets takes: typed behind the prompt, erasing a character, or *)
(* the end of the line.                                                    *)
LEMMA TypedNext ==
  ASSUME ConsoleTypes, ScreenInv, LineInv, gets, ~astray', VGA_WIDTH >= 3
  PROVE  /\ (pc' = "gets" /\ Len(command') + 3 <= VGA_WIDTH) =>
                 RowHolds(display', Edited(command'))
         /\ (pc' = "exec" /\ Len(command') + 2 <= VGA_WIDTH) =>
                 /\ display'.cursor_y \in Nat /\ display'.cursor_y >= 1
                 /\ RowAt(display', display'.cursor_y - 1,
                          Edited(Front(command')))
<1> DEFINE c == Head(shell_buf)
           n == Len(command)
           v == Append(command, c)
           s == Edited(command)
<1>1. c \in Keys /\ c \in Marks
  BY SeqHeadTail DEF ConsoleTypes, gets, Marks
<1>2. command \in Seq(Marks) /\ n \in Nat
  <2>1. command \in Seq(Keys) /\ Keys \subseteq Marks
    BY DEF ConsoleTypes, Marks
  <2>2. command \in Seq(Marks)
    BY <2>1
  <2> QED BY <2>1, <2>2
<1>3. /\ display \in Displays /\ display.VGA_BASE # 0 /\ ~astray
      /\ display' = kputchar(display, c)
      /\ ~(display'.cursor_y < display.cursor_y)
      /\ ~(c = BACKSPACE /\ display.cursor_x = 0 /\ display.cursor_y # 0)
  <2>1. Show(c) /\ pc \in Shell
    BY DEF gets, Shell
  <2>2. /\ ~astray /\ ~(display'.cursor_y < display.cursor_y)
        /\ display' = kputchar(display, c)
        /\ ~(c = BACKSPACE /\ display.cursor_x = 0 /\ display.cursor_y # 0)
    BY <2>1, Zenon DEF Show
  <2> QED BY <2>1, <2>2 DEF ScreenInv, Shell
<1>4. /\ command' = v /\ pc = "gets"
      /\ pc' = "exec" => c = RETURN
      /\ pc' = "gets" => c # RETURN
  BY KeyThen DEF gets
<1>5. n + 3 <= VGA_WIDTH => RowHolds(display, s)
  BY <1>3, <1>4 DEF LineInv
<1> HIDE DEF c
<1>6. Len(v) = n + 1
  BY <1>1, <1>2
<1>7. Front(v) = command
  BY <1>1, <1>2, FrontAppend
<1>8. Edited(v) = Typed(s, c)
  BY <1>1, <1>2, EditedAppend
<1>9. s \in Seq(Marks) /\ Len(s) <= n + 2 /\ Len(s) \in Nat
  BY <1>2, EditedLength
<1>10. VGA_WIDTH \in Nat /\ BACKSPACE # RETURN
  BY PageTypes, ConsoleAssumption DEF BACKSPACE, RETURN
<1> HIDE DEF v, n, s
<1>11. ASSUME c # RETURN, Len(v) + 3 <= VGA_WIDTH
       PROVE  RowHolds(display', Edited(v))
  <2>1. n + 3 <= VGA_WIDTH /\ Len(s) + 1 < VGA_WIDTH
    BY <1>2, <1>6, <1>9, <1>10, <1>11
  <2>2. RowHolds(display, s)
    BY <1>5, <2>1
  <2>3. CASE c # BACKSPACE
    <3>1. display' = Put(display, c) /\ Edited(v) = Append(s, c)
      BY <1>3, <1>8, <1>11, <2>3 DEF kputchar, Typed
    <3>2. c \in ShownChars
      BY <1>1, <2>3, KeysShown
    <3>3. RowHolds(display', Append(s, c))
      BY <1>3, <1>9, <2>1, <2>2, <3>1, <3>2, RowPut
    <3> QED BY <3>1, <3>3
  <2>4. CASE c = BACKSPACE /\ s # <<>>
    <3>1. display' = kbackspace(display)
      BY <1>3, <1>10, <2>4 DEF kputchar
    <3>2. Edited(v) = Front(s)
      BY <1>8, <2>4, Zenon DEF Typed
    <3>3. RowHolds(kbackspace(display), Front(s))
      BY <1>3, <1>9, <2>2, <2>4, RowErase
    <3> QED BY <3>1, <3>2, <3>3, Zenon
  <2>5. CASE c = BACKSPACE /\ s = <<>>
    <3>1. display' = kbackspace(display)
      BY <1>3, <1>10, <2>5 DEF kputchar
    <3>2. Edited(v) = s
      BY <1>8, <2>5, Zenon DEF Typed
    <3>3. display.cursor_x = 0
      BY <2>2, <2>5 DEF RowHolds
    <3>4. display' = display
      BY <1>3, <2>5, <3>1, <3>3 DEF kbackspace
    <3> QED BY <2>2, <3>2, <3>4
  <2> QED BY <2>3, <2>4, <2>5
<1>12. ASSUME c = RETURN, Len(v) + 2 <= VGA_WIDTH
       PROVE  /\ display'.cursor_y \in Nat /\ display'.cursor_y >= 1
              /\ RowAt(display', display'.cursor_y - 1, Edited(Front(v)))
  <2>1. n + 3 <= VGA_WIDTH
    BY <1>2, <1>6, <1>10, <1>12
  <2>2. RowHolds(display, s) /\ Edited(Front(v)) = s
    BY <1>5, <1>7, <2>1 DEF s
  <2>3. display' = NewRow(display)
    BY <1>3, <1>10, <1>12 DEF kputchar
  <2>4. /\ display'.cursor_y \in Nat /\ display'.cursor_y >= 1
        /\ RowAt(display', display'.cursor_y - 1, s)
    BY <1>3, <2>2, <2>3, RowReturn
  <2> QED BY <2>2, <2>4
<1> QED BY <1>4, <1>11, <1>12, Zenon

LEMMA LineInvInit ==
  ASSUME ConsoleInit
  PROVE  LineInv
  BY DEF ConsoleInit, LineInv

LEMMA LineInvNext ==
  ASSUME ConsoleTypes, ScreenInv, LineInv, [ConsoleNext]_console_vars
  PROVE  LineInv'
<1> SUFFICES ASSUME ~astray', VGA_WIDTH >= 3 PROVE LineInv'
  BY DEF LineInv
<1>1. CASE kernel_start
  BY <1>1 DEF kernel_start, LineInv
<1>2. CASE BootMessages
  BY <1>2 DEF BootMessages, LineInv
<1>3. CASE StartShell
  <2>1. pc' = "print" /\ out' = Welcome \o Prompt
    BY <1>3 DEF StartShell
  <2>2. Printing'
    BY <2>1, MessageFacts, MessageThenPrompt
  <2> QED BY <2>1, <2>2 DEF LineInv
<1>4. CASE printf
  <2>1. pc = "print" /\ pc' = "print" /\ ~astray
    <3>1. pc = "print" /\ pc' = pc /\ Show(Head(out))
      BY <1>4 DEF printf
    <3> QED BY <3>1, Zenon DEF Show
  <2>2. Printing
    BY <2>1 DEF LineInv
  <2>3. Printing'
    BY <1>4, <2>1, <2>2, PrintingNext
  <2> QED BY <2>1, <2>3 DEF LineInv
<1>5. CASE main_gets
  <2>1. /\ pc = "print" /\ pc' = "gets" /\ out = <<>> /\ command' = <<>>
        /\ UNCHANGED <<display, astray>>
    BY <1>5 DEF main_gets
  <2>2. Printing /\ Len(out) = 0
    BY <2>1 DEF LineInv
  <2>3. RowHolds(display, Prompt)
    BY <2>2, Zenon DEF Printing
  <2>4. RowHolds(display', Edited(command'))
    BY <2>1, <2>3, EditedEmpty
  <2> QED BY <2>1, <2>4 DEF LineInv
<1>6. CASE gets
  <2>1. pc' \in {"overrun", "exec", "gets"}
    BY <1>6, KeyThen DEF gets
  <2>2. pc' # "print"
    BY <2>1
  <2> QED BY <1>6, <2>2, TypedNext, Zenon DEF LineInv
<1>7. CASE gshell_process_command
  <2>1. CASE command \in Programs
    BY <1>7, <2>1 DEF gshell_process_command, LineInv
  <2>2. CASE command \notin Programs
    <3>1. pc' = "print" /\ out' = CouldntOpen \o Prompt
      BY <1>7, <2>2 DEF gshell_process_command
    <3>2. Printing'
      BY <3>1, MessageFacts, MessageThenPrompt
    <3> QED BY <3>1, <3>2 DEF LineInv
  <2> QED BY <2>1, <2>2
<1>8. ASSUME UNCHANGED <<display, pc, out, command, astray>> PROVE LineInv'
  BY <1>8, Zenon DEF LineInv, Printing
<1>9. CASE \E c \in Keys : StrikeKey(c)
  BY <1>8, <1>9 DEF StrikeKey
<1>10. CASE UNCHANGED console_vars
  BY <1>8, <1>10 DEF console_vars
<1> QED BY <1>1, <1>2, <1>3, <1>4, <1>5, <1>6, <1>7, <1>9, <1>10
        DEF ConsoleNext

(* What LineInv says of a command is what CommandIsRead asks for.          *)
LEMMA LineIsRead ==
  ASSUME ConsoleTypes, ScreenInv, LineInv
  PROVE  CommandIsRead
<1> SUFFICES ASSUME pc = "exec", ~astray, Len(command) + 2 <= VGA_WIDTH
             PROVE  LET row == VGA_WIDTH * (display.cursor_y - 1)
                        line == Edited(Front(command))
                    IN  [i \in 1 .. Len(line) |-> display.cells[row + i - 1]]
                          = line
  BY DEF CommandIsRead
<1> DEFINE n == Len(command)
           s == Edited(Front(command))
           k == Len(s)
           z == display.cursor_y - 1
           row == VGA_WIDTH * z
           g == [i \in 1 .. k |-> display.cells[row + i - 1]]
<1>1. command \in Seq(Marks) /\ command # <<>>
  <2>1. command \in Seq(Keys) /\ Keys \subseteq Marks /\ command # <<>>
    BY DEF ConsoleTypes, Marks
  <2> QED BY <2>1
<1>2. VGA_WIDTH \in Nat
  BY PageTypes
<1>3. n \in Nat /\ n >= 1 /\ n + 2 <= VGA_WIDTH
  BY <1>1
<1>4. display.cursor_y \in Nat /\ display.cursor_y >= 1 /\ RowAt(display, z, s)
  <2>1. VGA_WIDTH >= 3
    <3> HIDE DEF n
    <3> QED BY <1>2, <1>3
  <2> QED BY <2>1 DEF LineInv
<1>5. s \in Seq(Marks) /\ k \in Nat
  <2>1. Front(command) \in Seq(Marks)
    BY <1>1, FrontLast
  <2>2. s \in Seq(Marks)
    BY <2>1, EditedLength
  <2> QED BY <2>2
<1> HIDE DEF s, n, z
<1>6. z \in Nat /\ VGA_WIDTH * z = z * VGA_WIDTH /\ z * VGA_WIDTH \in Nat
  BY <1>2, <1>4 DEF z
<1>7. ASSUME NEW i \in 1 .. k PROVE g[i] = s[i]
  <2>1. row + i - 1 = z * VGA_WIDTH + (i - 1)
    <3> DEFINE r == z * VGA_WIDTH
    <3>1. row = r /\ r \in Nat /\ i \in Int
      BY <1>5, <1>6
    <3> HIDE DEF r, row
    <3>2. row + i - 1 = r + (i - 1)
      BY <3>1
    <3> QED BY <3>2 DEF r
  <2>2. g[i] = display.cells[row + i - 1]
    OBVIOUS
  <2>3. display.cells[z * VGA_WIDTH + (i - 1)] = s[i]
    BY <1>4, <1>7, Zenon DEF RowAt
  <2> QED BY <2>1, <2>2, <2>3, Zenon
<1>8. g = s
  <2>1. g = [i \in 1 .. k |-> g[i]]
    OBVIOUS
  <2>2. s = [i \in 1 .. k |-> s[i]]
    BY <1>5
  <2> HIDE DEF g
  <2> QED BY <1>7, <2>1, <2>2
<1> HIDE DEF g
<1> QED BY <1>8 DEF g, s, z, row, k

(* gets and exec of the shell: a command that fits into its array stands   *)
(* in the row of the prompt when it is executed, keys struck ahead of it   *)
(* included, as its backspaces leave it; for every size of the screen and  *)
(* of the array, and any number of keys.                                   *)
THEOREM CommandIsReadHolds == ConsoleSpec => []CommandIsRead
<1> DEFINE IInv == ConsoleTypes /\ ScreenInv /\ LineInv
<1>1. ConsoleInit => IInv
  BY ScreenInvInit, LineInvInit
<1>2. IInv /\ [ConsoleNext]_console_vars => IInv'
  BY ConsoleTypesNext, ScreenInvNext, LineInvNext
<1>3. IInv => CommandIsRead
  BY LineIsRead
<1> QED BY <1>1, <1>2, <1>3, PTL DEF ConsoleSpec
=============================================================================
