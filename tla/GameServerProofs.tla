-------------------------- MODULE GameServerProofs --------------------------
(***************************************************************************)
(* Proofs about module GameServer, for any number of clients, any board    *)
(* and whatever is typed: the server's maps agree, the pieces move in      *)
(* turn, an announced end is the end, no picture is late by more than one  *)
(* move, and nobody is left waiting.                                       *)
(***************************************************************************)
EXTENDS GameServer, ConnectMProofs

Bs == Boards(boardRows, boardCols, boardM)

Pictures == {String(b) : b \in Bs}

\* What a client sends.
Sent ==
    {SendConnect(p) : p \in Piece} \cup {SendMove(k) : k \in Int}
      \cup (UNION {Lines[c] : c \in Client})

\* Why a move is refused.
Reasons == {"client not registered", "game is already over", "it is not your turn",
            "column out of range", "invalid player", "column is full"}

\* What the server sends.
Told ==
    {AckConnect(s) : s \in BOOLEAN}
      \cup {NotifyStart(o, t, g) : o \in Piece, t \in Piece, g \in Pictures}
      \cup {AckMove(s, t, g) : s \in {"OK", "DRAW"}, t \in Piece \cup {Nil}, g \in Pictures}
      \cup {NotifyWin(p, g) : p \in Piece, g \in Pictures}
      \cup {AckInvalid(r) : r \in Reasons}

Sends == [to : Client, msg : Told]

\* The types of what is on the wires and of what the goroutines still owe.
Wired ==
    /\ toServer \in [Client -> Seq(Sent)]
    /\ toClient \in [Client -> Seq(Told)]
    /\ owed \in [Client -> Seq(Sends)]
    /\ claims \in [Client -> SUBSET Piece]

\* The types and the agreement of the three maps, which need each other: a
\* message goes to the connection of a piece that is taken.
Base == TypeOK /\ Wired /\ SeatsAgree

-----------------------------------------------------------------------------
(* Messages *)

\* The pieces of the two players on the board.
LEMMA PieceIs ==
    ASSUME NEW p \in Piece
    PROVE  /\ pieceToPlayer(p) \in {Player1, Player2} /\ Other(p) \in Piece
           /\ Other(p) # p /\ Other(Other(p)) = p
           /\ pieceToPlayer(Other(p)) # pieceToPlayer(p)
           /\ \A q \in Piece : q # p => q = Other(p)
  BY DEF Piece, Other, pieceToPlayer, Player1, Player2

\* A move names a number.
LEMMA SentIs ==
    ASSUME NEW m \in Sent, m.type = "cs_send_move"
    PROVE  m.column \in Int
<1>1. CASE \E p \in Piece : m = SendConnect(p)
  BY <1>1 DEF SendConnect
<1>2. CASE \E k \in Int : m = SendMove(k)
  BY <1>2 DEF SendMove
<1>3. CASE \E c \in Client : m \in Lines[c]
  BY <1>3, GameAssumption
<1> QED
  BY <1>1, <1>2, <1>3 DEF Sent

\* A message to a client is one send.
LEMMA SendIs ==
    ASSUME NEW c \in Client, NEW m \in Told
    PROVE  /\ Send(c, m) \in Seq(Sends) /\ Len(Send(c, m)) = 1
           /\ Send(c, m)[1] = [to |-> c, msg |-> m]
  BY DEF Send, Sends

\* The messages of the server, as they are made.
LEMMA ToldIs ==
    /\ \A s \in BOOLEAN : AckConnect(s) \in Told
    /\ \A o \in Piece, t \in Piece, b \in Bs : NotifyStart(o, t, String(b)) \in Told
    /\ \A s \in {"OK", "DRAW"}, t \in Piece \cup {Nil}, b \in Bs :
          AckMove(s, t, String(b)) \in Told
    /\ \A p \in Piece, b \in Bs : NotifyWin(p, String(b)) \in Told
    /\ \A r \in Reasons : AckInvalid(r) \in Told
<1>1. \A b \in Bs : String(b) \in Pictures
  BY DEF Pictures
<1> QED
  BY <1>1 DEF Told

\* A broadcast is a send to each connected player.
LEMMA BroadcastIs ==
    ASSUME TypeOK, NEW m \in Told
    PROVE  /\ Broadcast(m) \in Seq(Sends)
           /\ \A i \in 1 .. Len(Broadcast(m)) :
                 /\ Broadcast(m)[i].msg = m
                 /\ \E p \in Piece : playerConns[p] = Broadcast(m)[i].to
           /\ \A p \in Piece : playerConns[p] # Nil =>
                 \E i \in 1 .. Len(Broadcast(m)) :
                    Broadcast(m)[i] = [to |-> playerConns[p], msg |-> m]
<1> DEFINE tell(p) == IF playerConns[p] = Nil THEN << >> ELSE Send(playerConns[p], m)
<1>0. PICK B : B = Broadcast(m)
  OBVIOUS
<1>1. B = tell("X") \o tell("O") /\ Piece = {"X", "O"}
  BY <1>0 DEF Broadcast, Piece
<1>2. ASSUME NEW p \in Piece
      PROVE  /\ tell(p) \in Seq(Sends)
             /\ \A i \in 1 .. Len(tell(p)) : tell(p)[i] = [to |-> playerConns[p], msg |-> m]
             /\ playerConns[p] # Nil => Len(tell(p)) = 1
  <2>1. CASE playerConns[p] = Nil
    BY <2>1
  <2>2. CASE playerConns[p] # Nil
    <3>1. playerConns[p] \in Client
      BY <2>2 DEF TypeOK
    <3> QED
      BY <2>2, <3>1, SendIs
  <2> QED
    BY <2>1, <2>2
<1> HIDE DEF tell
<1>3. PICK s, t : s = tell("X") /\ t = tell("O")
  OBVIOUS
<1>4. /\ s \in Seq(Sends) /\ t \in Seq(Sends) /\ B = s \o t
      /\ Len(s) \in Nat /\ Len(t) \in Nat /\ B \in Seq(Sends) /\ Len(B) = Len(s) + Len(t)
  BY <1>1, <1>2, <1>3
<1> DEFINE x == [to |-> playerConns["X"], msg |-> m]
           o == [to |-> playerConns["O"], msg |-> m]
<1>5. /\ \A i \in 1 .. Len(s) : B[i] = x
      /\ \A i \in 1 .. Len(t) : B[Len(s) + i] = o
      /\ playerConns["X"] # Nil => Len(s) = 1
      /\ playerConns["O"] # Nil => Len(t) = 1
  BY <1>1, <1>2, <1>3, <1>4
<1> HIDE DEF x, o
<1>6. ASSUME NEW i \in 1 .. Len(B) PROVE B[i] = x \/ B[i] = o
  <2>1. CASE i <= Len(s)
    BY <1>4, <1>5, <2>1
  <2>2. CASE i > Len(s)
    <3>1. i - Len(s) \in 1 .. Len(t) /\ Len(s) + (i - Len(s)) = i
      BY <1>4, <2>2
    <3> QED
      BY <1>5, <3>1
  <2> QED
    BY <1>4, <2>1, <2>2
<1>7. ASSUME playerConns["X"] # Nil PROVE \E i \in 1 .. Len(B) : B[i] = x
  <2>0. Len(s) = 1
    BY <1>5, <1>7
  <2>1. 1 \in 1 .. Len(s) /\ 1 \in 1 .. Len(B)
    BY <1>4, <2>0
  <2> QED
    BY <1>5, <2>1
<1>8. ASSUME playerConns["O"] # Nil PROVE \E i \in 1 .. Len(B) : B[i] = o
  <2>0. Len(t) = 1
    BY <1>5, <1>8
  <2>1. 1 \in 1 .. Len(t) /\ Len(s) + 1 \in 1 .. Len(B)
    BY <1>4, <2>0
  <2> QED
    BY <1>5, <2>1
<1>9. "X" \in Piece /\ "O" \in Piece /\ \A p \in Piece : p = "X" \/ p = "O"
  BY <1>1
<1>10. x.msg = m /\ x.to = playerConns["X"] /\ o.msg = m /\ o.to = playerConns["O"]
  BY DEF x, o
<1>11. ASSUME NEW p \in Piece, playerConns[p] # Nil
       PROVE  \E i \in 1 .. Len(B) : B[i] = [to |-> playerConns[p], msg |-> m]
  <2>1. CASE p = "X"
    BY <1>7, <1>11, <2>1 DEF x
  <2>2. CASE p = "O"
    BY <1>8, <1>11, <2>2 DEF o
  <2> QED
    BY <1>9, <2>1, <2>2
<1>12. ASSUME NEW i \in 1 .. Len(B)
       PROVE  B[i].msg = m /\ \E p \in Piece : playerConns[p] = B[i].to
  BY <1>6, <1>9, <1>10
<1> QED
  BY <1>0, <1>4, <1>11, <1>12

-----------------------------------------------------------------------------
(* The types, and the maps of the server *)

\* A goroutine owes more sends.
LEMMA OwesIs ==
    ASSUME owed \in [Client -> Seq(Sends)], NEW c \in Client, NEW s \in Seq(Sends), Owes(c, s)
    PROVE  /\ owed' \in [Client -> Seq(Sends)] /\ owed'[c] = owed[c] \o s
           /\ \A d \in Client : d # c => owed'[d] = owed[d]
  BY DEF Owes

\* A goroutine takes a message.
LEMMA ReadsIs ==
    ASSUME toServer \in [Client -> Seq(Sent)], NEW c \in Client, NEW type, Reads(c, type)
    PROVE  /\ toServer[c] # << >> /\ owed[c] = << >> /\ link[c] \in {"open", "closed"}
           /\ Head(toServer[c]) \in Sent /\ Head(toServer[c]).type = type
           /\ Consume(c) => /\ toServer' \in [Client -> Seq(Sent)]
                            /\ toServer'[c] = Tail(toServer[c])
                            /\ \A d \in Client : d # c => toServer'[d] = toServer[d]
<1>1. toServer[c] # << >> /\ toServer[c] \in Seq(Sent)
  BY DEF Reads
<1>2. Head(toServer[c]) \in Sent /\ Tail(toServer[c]) \in Seq(Sent)
  BY <1>1
<1> QED
  BY <1>1, <1>2 DEF Reads, Consume

\* The initial states.
LEMMA BaseInit == Init => Base
<1> SUFFICES ASSUME Init PROVE Base
  OBVIOUS
<1>1. TypeOK
  <2>1. MaxLines \in Nat /\ 0 \in 0..MaxLines
    BY GameAssumption
  <2>2. lines \in [Client -> 0..MaxLines]
    BY <2>1 DEF Init
  <2>3. {firstPlayer, currentTurn} \subseteq IF board = Nil THEN {Nil} ELSE Piece
    BY DEF Init
  <2> QED
    BY <2>2, <2>3 DEF Init, TypeOK
<1>2. Wired
  BY DEF Init, Wired
<1>3. SeatsAgree
  BY DEF Init, SeatsAgree
<1> QED
  BY <1>1, <1>2, <1>3 DEF Base

\* A connect that is refused.
LEMMA BaseRefuseConnect ==
    ASSUME Base, NEW c \in Client, RefuseConnect(c)
    PROVE  Base'
<1>1. TypeOK' /\ SeatsAgree'
  BY DEF Base, TypeOK, SeatsAgree, RefuseConnect, seats, match
<1>2. Send(c, AckConnect(FALSE)) \in Seq(Sends)
  BY ToldIs, SendIs
<1>3. owed' \in [Client -> Seq(Sends)]
  BY <1>2, OwesIs DEF Base, Wired, RefuseConnect
<1>4. toServer' \in [Client -> Seq(Sent)]
  BY ReadsIs DEF Base, Wired, RefuseConnect
<1>5. Wired'
  BY <1>3, <1>4 DEF Base, Wired, RefuseConnect
<1> QED
  BY <1>1, <1>5 DEF Base

\* What a granted connect does to the maps and the board.
LEMMA GrantIs ==
    ASSUME Base, NEW c \in Client, GrantConnect(c)
    PROVE  \E p \in Piece :
              /\ p = Head(toServer[c]).player /\ ~takenPieces[p]
              /\ playerRegistry' = [playerRegistry EXCEPT ![c] = p]
              /\ takenPieces' = [takenPieces EXCEPT ![p] = TRUE]
              /\ playerConns' = [playerConns EXCEPT ![p] = c]
              /\ claims' = [claims EXCEPT ![c] = @ \cup {p}]
              /\ board' \in Bs /\ firstPlayer' \in Piece /\ currentTurn' \in Piece
              /\ IF board = Nil
                 THEN board' = NewBoard(boardRows, boardCols, boardM)
                        /\ firstPlayer' = p /\ currentTurn' = p
                 ELSE UNCHANGED << board, firstPlayer, currentTurn >>
<1>1. PICK p : p = Head(toServer[c]).player
  OBVIOUS
<1>2. /\ p \in Piece /\ ~takenPieces[p]
      /\ playerRegistry' = [playerRegistry EXCEPT ![c] = p]
      /\ takenPieces' = [takenPieces EXCEPT ![p] = TRUE]
      /\ playerConns' = [playerConns EXCEPT ![p] = c]
      /\ claims' = [claims EXCEPT ![c] = @ \cup {p}]
      /\ IF board = Nil
         THEN board' = NewBoard(boardRows, boardCols, boardM)
                /\ firstPlayer' = p /\ currentTurn' = p
         ELSE UNCHANGED << board, firstPlayer, currentTurn >>
  BY <1>1 DEF GrantConnect, Open
<1>3. CASE board = Nil
  <2>1. NewBoard(boardRows, boardCols, boardM) \in Bs
    BY NewBoardIs, GameAssumption DEF Bs
  <2> QED
    BY <1>1, <1>2, <1>3, <2>1
<1>4. CASE board # Nil
  <2>1. board \in Bs /\ firstPlayer \in Piece /\ currentTurn \in Piece
    BY <1>4 DEF Base, TypeOK, Bs
  <2> QED
    BY <1>1, <1>2, <1>4, <2>1
<1> QED
  BY <1>3, <1>4

\* A connect that is granted.
LEMMA BaseGrantConnect ==
    ASSUME Base, NEW c \in Client, GrantConnect(c)
    PROVE  Base'
<1>1. PICK p \in Piece :
              /\ p = Head(toServer[c]).player /\ ~takenPieces[p]
              /\ playerRegistry' = [playerRegistry EXCEPT ![c] = p]
              /\ takenPieces' = [takenPieces EXCEPT ![p] = TRUE]
              /\ playerConns' = [playerConns EXCEPT ![p] = c]
              /\ claims' = [claims EXCEPT ![c] = @ \cup {p}]
              /\ board' \in Bs /\ firstPlayer' \in Piece /\ currentTurn' \in Piece
  BY GrantIs
<1>2. Nil \notin Client \cup Piece /\ Nil \notin Bs
  BY GameAssumption DEF Bs
<1>3. TypeOK'
  <2>1. /\ playerRegistry' \in [Client -> Piece \cup {Nil}]
        /\ takenPieces' \in [Piece -> BOOLEAN]
        /\ playerConns' \in [Piece -> Client \cup {Nil}]
    BY <1>1 DEF Base, TypeOK
  <2>2. /\ board' \in Boards(boardRows, boardCols, boardM) \cup {Nil}
        /\ {firstPlayer', currentTurn'} \subseteq IF board' = Nil THEN {Nil} ELSE Piece
    BY <1>1, <1>2 DEF Bs
  <2>3. gameOver' \in BOOLEAN /\ link' \in [Client -> {"none", "open", "closed", "gone"}]
        /\ lines' \in [Client -> 0..MaxLines] /\ firstMoveAcked' \in [Client -> BOOLEAN]
    BY DEF GrantConnect, Base, TypeOK
  <2> QED
    BY <2>1, <2>2, <2>3 DEF TypeOK
<1>4. SeatsAgree'
  <2>1. \A q \in Piece : takenPieces'[q] <=> playerConns'[q] # Nil
    BY <1>1, <1>2 DEF Base, SeatsAgree, TypeOK
  <2>2. ASSUME NEW d \in Client, playerRegistry'[d] # Nil
        PROVE  playerConns'[playerRegistry'[d]] = d
    <3>1. CASE d = c
      BY <1>1, <3>1 DEF Base, TypeOK
    <3>2. CASE d # c
      <4>1. playerRegistry'[d] = playerRegistry[d] /\ playerRegistry[d] \in Piece
        BY <1>1, <2>2, <3>2 DEF Base, TypeOK
      <4>2. playerConns[playerRegistry[d]] = d /\ d # Nil
        BY <1>2, <2>2, <4>1 DEF Base, SeatsAgree
      <4>3. playerRegistry[d] # p
        BY <1>1, <4>2 DEF Base, SeatsAgree
      <4> QED
        BY <1>1, <4>1, <4>2, <4>3 DEF Base, TypeOK
    <3> QED
      BY <3>1, <3>2
  <2> QED
    BY <2>1, <2>2 DEF SeatsAgree
<1>5. PICK t, b : t = currentTurn' /\ b = board'
  OBVIOUS
<1> DEFINE start(q, o) == Send(playerConns'[q], NotifyStart(o, t, String(b)))
           rest == IF takenPieces'["X"] /\ takenPieces'["O"]
                   THEN start("X", "O") \o start("O", "X") ELSE << >>
<1>6. rest \in Seq(Sends)
  <2>1. CASE takenPieces'["X"] /\ takenPieces'["O"]
    <3>1. "X" \in Piece /\ "O" \in Piece
      BY DEF Piece
    <3>2. playerConns'["X"] \in Client /\ playerConns'["O"] \in Client
      BY <1>3, <1>4, <2>1, <3>1 DEF TypeOK, SeatsAgree
    <3>3. NotifyStart("O", t, String(b)) \in Told /\ NotifyStart("X", t, String(b)) \in Told
      BY <1>1, <1>5, <3>1, ToldIs
    <3>4. start("X", "O") \in Seq(Sends) /\ start("O", "X") \in Seq(Sends)
      BY <3>2, <3>3, SendIs
    <3> HIDE DEF start
    <3> QED
      BY <3>4, <2>1
  <2>2. CASE ~(takenPieces'["X"] /\ takenPieces'["O"])
    BY <2>2
  <2> QED
    BY <2>1, <2>2
<1>7. Send(c, AckConnect(TRUE)) \in Seq(Sends)
  BY ToldIs, SendIs
<1>8. Owes(c, Send(c, AckConnect(TRUE)) \o rest)
  BY <1>5 DEF GrantConnect
<1> HIDE DEF rest
<1>9. Send(c, AckConnect(TRUE)) \o rest \in Seq(Sends)
  <2>1. PICK a : a = Send(c, AckConnect(TRUE))
    OBVIOUS
  <2>2. a \in Seq(Sends) /\ rest \in Seq(Sends)
    BY <1>6, <1>7, <2>1
  <2>3. a \o rest \in Seq(Sends)
    BY <2>2
  <2> QED
    BY <2>1, <2>3
<1>10. owed' \in [Client -> Seq(Sends)]
  BY <1>8, <1>9, OwesIs DEF Base, Wired
<1>11. toServer' \in [Client -> Seq(Sent)]
  BY ReadsIs DEF Base, Wired, GrantConnect
<1>12. claims' \in [Client -> SUBSET Piece] /\ toClient' = toClient
  BY <1>1 DEF Base, Wired, GrantConnect
<1>13. Wired'
  BY <1>10, <1>11, <1>12 DEF Base, Wired
<1> QED
  BY <1>3, <1>4, <1>13 DEF Base

\* A refused move is refused for one of the reasons.
LEMMA RefusalIs ==
    ASSUME NEW c, NEW column, Refusal(c, column) # "nil"
    PROVE  Refusal(c, column) \in Reasons
<1>1. ASSUME NEW e, e = MoveError(board, column - 1, pieceToPlayer(playerRegistry[c])), Reason(e) # "nil"
      PROVE  Reason(e) \in Reasons
  BY <1>1 DEF Reason, MoveError, Reasons
<1> QED
  BY <1>1 DEF Refusal, Reasons

\* A move that is refused.
LEMMA BaseRefuseMove ==
    ASSUME Base, NEW c \in Client, RefuseMove(c)
    PROVE  Base'
<1>1. TypeOK' /\ SeatsAgree'
  BY DEF Base, TypeOK, SeatsAgree, RefuseMove, seats, match
<1>2. PICK r : r = Refusal(c, Head(toServer[c]).column)
  OBVIOUS
<1>3. r \in Reasons
  BY <1>2, RefusalIs DEF RefuseMove
<1>4. Send(c, AckInvalid(r)) \in Seq(Sends)
  BY <1>3, ToldIs, SendIs
<1>5. Owes(c, Send(c, AckInvalid(r)))
  BY <1>2 DEF RefuseMove
<1>6. owed' \in [Client -> Seq(Sends)]
  BY <1>4, <1>5, OwesIs DEF Base, Wired
<1>7. toServer' \in [Client -> Seq(Sent)]
  BY ReadsIs DEF Base, Wired, RefuseMove
<1>8. Wired'
  BY <1>6, <1>7 DEF Base, Wired, RefuseMove
<1> QED
  BY <1>1, <1>8 DEF Base

\* The verdict that is sent after a move by piece p.
Verdict(p) ==
    IF CheckWin(board') THEN NotifyWin(p, String(board'))
    ELSE IF IsFull(board') THEN AckMove("DRAW", Nil, String(board'))
    ELSE AckMove("OK", currentTurn', String(board'))

\* What a move that is played does to the board and the turn.
LEMMA PlayIs ==
    ASSUME Base, NEW c \in Client, PlayMove(c)
    PROVE  /\ playerRegistry[c] \in Piece /\ playerRegistry[c] = currentTurn
           /\ playerConns[playerRegistry[c]] = c
           /\ ~gameOver /\ board # Nil /\ board \in Bs /\ board' \in Bs /\ firstPlayer \in Piece
           /\ \E row \in 0 .. boardRows - 1, col \in 0 .. boardCols - 1 :
                 Drops(board, board', row, col, pieceToPlayer(currentTurn))
           /\ gameOver' = (CheckWin(board') \/ IsFull(board'))
           /\ currentTurn' = IF gameOver' THEN currentTurn ELSE Other(currentTurn)
           /\ Verdict(playerRegistry[c]) \in Told
           /\ Owes(c, Broadcast(Verdict(playerRegistry[c])))
           /\ UNCHANGED << seats, firstPlayer >>
<1>1. PICK k : k = Head(toServer[c]).column
  OBVIOUS
<1>2. Refusal(c, k) = "nil" /\ Reads(c, "cs_send_move")
  BY <1>1 DEF PlayMove
<1>3. k \in Int
  BY <1>1, <1>2, ReadsIs, SentIs DEF Base, Wired
<1>4. /\ playerRegistry[c] # Nil /\ ~gameOver /\ playerRegistry[c] = currentTurn
      /\ Reason(MoveError(board, k - 1, pieceToPlayer(playerRegistry[c]))) = "nil"
  BY <1>2 DEF Refusal
<1>5. playerRegistry[c] \in Piece /\ playerConns[playerRegistry[c]] = c
  BY <1>4 DEF Base, TypeOK, SeatsAgree
<1>6. board # Nil /\ board \in Bs /\ firstPlayer \in Piece /\ currentTurn \in Piece
  BY <1>4, <1>5 DEF Base, TypeOK, Bs
<1>7. MoveError(board, k - 1, pieceToPlayer(currentTurn)) = "nil"
  BY <1>4 DEF Reason
<1>8. board' = MakeMove(board, k - 1, pieceToPlayer(currentTurn))
  BY <1>1, <1>4 DEF PlayMove
<1>9. pieceToPlayer(currentTurn) \in {Player1, Player2} /\ k - 1 \in Int
  BY <1>3, <1>6, PieceIs
<1>10. PICK q, col : q = pieceToPlayer(currentTurn) /\ col = k - 1
  OBVIOUS
<1>11. boardRows \in Nat /\ boardCols \in Nat /\ boardM \in Nat
  BY GameAssumption
<1>12. /\ MakeMove(board, col, q) \in Bs
       /\ \E row \in 0 .. boardRows - 1 : Drops(board, MakeMove(board, col, q), row, col, q)
  BY <1>6, <1>7, <1>9, <1>10, <1>11, MoveDrops DEF Bs
<1>13. PICK row \in 0 .. boardRows - 1 : Drops(board, board', row, col, q)
  BY <1>8, <1>10, <1>12
<1>14. col \in 0 .. boardCols - 1
  <2>1. board.Cols = boardCols
    BY <1>6 DEF Bs, Boards
  <2> QED
    BY <1>13, <2>1 DEF Drops
<1>15. board' \in Bs
  BY <1>8, <1>10, <1>12
<1>16. /\ gameOver' = (CheckWin(board') \/ IsFull(board'))
       /\ currentTurn' = IF gameOver' THEN currentTurn ELSE Other(currentTurn)
       /\ Owes(c, Broadcast(Verdict(playerRegistry[c])))
       /\ UNCHANGED << seats, firstPlayer >>
  BY DEF PlayMove, Verdict
<1>17. currentTurn' \in Piece
  BY <1>6, <1>16, PieceIs
<1>18. Verdict(playerRegistry[c]) \in Told
  BY <1>5, <1>15, <1>17, ToldIs DEF Verdict
<1>19. \E r \in 0 .. boardRows - 1, cl \in 0 .. boardCols - 1 :
          Drops(board, board', r, cl, pieceToPlayer(currentTurn))
  BY <1>10, <1>13, <1>14
<1> QED
  BY <1>4, <1>5, <1>6, <1>15, <1>16, <1>18, <1>19

\* A move that is played.
LEMMA BasePlayMove ==
    ASSUME Base, NEW c \in Client, PlayMove(c)
    PROVE  Base'
<1>1. /\ board' \in Bs /\ currentTurn \in Piece /\ firstPlayer' \in Piece
      /\ gameOver' = (CheckWin(board') \/ IsFull(board'))
      /\ currentTurn' = IF gameOver' THEN currentTurn ELSE Other(currentTurn)
      /\ Verdict(playerRegistry[c]) \in Told
      /\ Owes(c, Broadcast(Verdict(playerRegistry[c])))
      /\ UNCHANGED seats
  BY PlayIs
<1>2. Nil \notin Bs
  BY GameAssumption DEF Bs
<1>3. currentTurn' \in Piece /\ gameOver' \in BOOLEAN
  BY <1>1, PieceIs
<1>4. TypeOK' /\ SeatsAgree'
  <2>1. /\ board' \in Boards(boardRows, boardCols, boardM) \cup {Nil}
        /\ {firstPlayer', currentTurn'} \subseteq IF board' = Nil THEN {Nil} ELSE Piece
    BY <1>1, <1>2, <1>3 DEF Bs
  <2>2. UNCHANGED << playerRegistry, takenPieces, playerConns, link, lines, firstMoveAcked >>
    BY <1>1 DEF seats, PlayMove
  <2>3. TypeOK'
    BY <1>3, <2>1, <2>2 DEF Base, TypeOK
  <2>4. SeatsAgree'
    BY <2>2 DEF Base, SeatsAgree
  <2> QED
    BY <2>3, <2>4
<1>5. Broadcast(Verdict(playerRegistry[c])) \in Seq(Sends)
  BY <1>1, BroadcastIs DEF Base
<1>6. owed' \in [Client -> Seq(Sends)]
  BY <1>1, <1>5, OwesIs DEF Base, Wired
<1>7. toServer' \in [Client -> Seq(Sent)]
  BY ReadsIs DEF Base, Wired, PlayMove
<1>8. Wired'
  BY <1>6, <1>7 DEF Base, Wired, PlayMove
<1> QED
  BY <1>4, <1>8 DEF Base

\* What a goroutine does that makes a send.
LEMMA MakeSendIs ==
    ASSUME Base, NEW c \in Client, MakeSend(c)
    PROVE  \E s \in Sends :
              /\ owed[c] # << >> /\ s = Head(owed[c]) /\ owed[c] = << s >> \o Tail(owed[c])
              /\ owed' \in [Client -> Seq(Sends)] /\ owed'[c] = Tail(owed[c])
              /\ \A d \in Client : d # c => owed'[d] = owed[d]
              /\ toClient' \in [Client -> Seq(Told)]
              /\ toClient' = IF link[s.to] = "open"
                             THEN [toClient EXCEPT ![s.to] = Append(@, s.msg)] ELSE toClient
<1>1. PICK s : s = Head(owed[c])
  OBVIOUS
<1>2. owed[c] # << >> /\ owed[c] \in Seq(Sends) /\ owed' = [owed EXCEPT ![c] = Tail(@)]
      /\ toClient' = IF link[s.to] = "open"
                     THEN [toClient EXCEPT ![s.to] = Append(@, s.msg)] ELSE toClient
  BY <1>1 DEF Base, Wired, MakeSend
<1>3. s \in Sends /\ Tail(owed[c]) \in Seq(Sends) /\ owed[c] = << s >> \o Tail(owed[c])
  BY <1>1, <1>2
<1>4. s.to \in Client /\ s.msg \in Told
  BY <1>3 DEF Sends
<1>5. toClient \in [Client -> Seq(Told)] /\ owed \in [Client -> Seq(Sends)]
  BY DEF Base, Wired
<1>6. Append(toClient[s.to], s.msg) \in Seq(Told)
  BY <1>4, <1>5
<1>7. toClient' \in [Client -> Seq(Told)]
  BY <1>2, <1>4, <1>5, <1>6
<1> QED
  BY <1>1, <1>2, <1>3, <1>5, <1>7

\* A send.
LEMMA BaseMakeSend ==
    ASSUME Base, NEW c \in Client, MakeSend(c)
    PROVE  Base'
<1>1. owed' \in [Client -> Seq(Sends)] /\ toClient' \in [Client -> Seq(Told)]
  BY MakeSendIs
<1>2. Wired'
  BY <1>1 DEF Base, Wired, MakeSend
<1>3. TypeOK' /\ SeatsAgree'
  BY DEF Base, TypeOK, SeatsAgree, MakeSend, seats, match
<1> QED
  BY <1>2, <1>3 DEF Base

\* The release of a slot takes the registration of the client that held it and
\* of no other.
LEMMA ReleaseIs ==
    ASSUME Base, NEW c \in Client, Release(c)
    PROVE  \E p \in Piece :
              /\ playerConns[p] = c
              /\ playerConns' = [playerConns EXCEPT ![p] = Nil]
              /\ takenPieces' = [takenPieces EXCEPT ![p] = FALSE]
              /\ playerRegistry' \in [Client -> Piece \cup {Nil}]
              /\ \A i \in Client : playerRegistry'[i] =
                    IF i = c /\ playerRegistry[i] = p THEN Nil ELSE playerRegistry[i]
<1>1. PICK p \in Piece :
        /\ playerConns[p] = c
        /\ playerConns' = [playerConns EXCEPT ![p] = Nil]
        /\ takenPieces' = [takenPieces EXCEPT ![p] = FALSE]
        /\ playerRegistry' = [i \in Client |->
                                IF playerRegistry[i] = p THEN Nil ELSE playerRegistry[i]]
  BY DEF Release
<1>2. p # Nil /\ playerRegistry \in [Client -> Piece \cup {Nil}]
  BY GameAssumption DEF Base, TypeOK
<1>3. ASSUME NEW i \in Client, playerRegistry[i] = p PROVE i = c
  BY <1>1, <1>2, <1>3 DEF Base, SeatsAgree
<1> QED
  BY <1>1, <1>2, <1>3

\* The end of a connection.
LEMMA BaseHangup ==
    ASSUME Base, NEW c \in Client, Hangup(c)
    PROVE  Base'
<1>1. UNCHANGED << match, owed, toServer, toClient, firstMoveAcked, lines, claims >>
      /\ link' = [link EXCEPT ![c] = "gone"]
  BY DEF Hangup
<1>2. Wired'
  BY <1>1 DEF Base, Wired
<1>3. CASE UNCHANGED seats
  BY <1>1, <1>2, <1>3 DEF Base, TypeOK, SeatsAgree, seats, match
<1>4. CASE Release(c)
  <2>1. PICK p \in Piece :
              /\ playerConns[p] = c
              /\ playerConns' = [playerConns EXCEPT ![p] = Nil]
              /\ takenPieces' = [takenPieces EXCEPT ![p] = FALSE]
              /\ playerRegistry' \in [Client -> Piece \cup {Nil}]
              /\ \A i \in Client : playerRegistry'[i] =
                    IF i = c /\ playerRegistry[i] = p THEN Nil ELSE playerRegistry[i]
    BY <1>4, ReleaseIs
  <2>2. Nil \notin Client \cup Piece
    BY GameAssumption
  <2>3. TypeOK'
    <3>1. takenPieces' \in [Piece -> BOOLEAN] /\ playerConns' \in [Piece -> Client \cup {Nil}]
      BY <2>1 DEF Base, TypeOK
    <3> QED
      BY <1>1, <2>1, <3>1 DEF Base, TypeOK, match
  <2>4. \A q \in Piece : takenPieces'[q] <=> playerConns'[q] # Nil
    BY <2>1, <2>2 DEF Base, SeatsAgree, TypeOK
  <2>5. ASSUME NEW d \in Client, playerRegistry'[d] # Nil
        PROVE  playerConns'[playerRegistry'[d]] = d
    <3>1. playerRegistry'[d] = playerRegistry[d] /\ playerRegistry[d] \in Piece
          /\ ~(d = c /\ playerRegistry[d] = p)
      BY <2>1, <2>5 DEF Base, TypeOK
    <3>2. playerConns[playerRegistry[d]] = d
      BY <2>5, <3>1 DEF Base, SeatsAgree
    <3>3. playerRegistry[d] # p
      BY <2>1, <3>1, <3>2
    <3> QED
      BY <2>1, <3>1, <3>2, <3>3 DEF Base, TypeOK
  <2>6. SeatsAgree'
    BY <2>4, <2>5 DEF SeatsAgree
  <2> QED
    BY <1>2, <2>3, <2>6 DEF Base
<1> QED
  BY <1>3, <1>4 DEF Hangup

\* A client dials.
LEMMA BaseDial ==
    ASSUME Base, NEW c \in Client, Dial(c)
    PROVE  Base'
<1>1. Wants[c] \in Piece
  BY GameAssumption
<1>2. SendConnect(Wants[c]) \in Sent
  BY <1>1 DEF Sent
<1>3. Wired'
  BY <1>2 DEF Base, Wired, Dial
<1>4. TypeOK' /\ SeatsAgree'
  BY DEF Base, TypeOK, SeatsAgree, Dial, seats, match
<1> QED
  BY <1>3, <1>4 DEF Base

\* A line is typed.
LEMMA BaseType ==
    ASSUME Base, NEW c \in Client, NEW msg \in Lines[c], Type(c, msg)
    PROVE  Base'
<1>1. msg \in Sent /\ MaxLines \in Nat
  BY GameAssumption DEF Sent
<1>2. Wired'
  BY <1>1 DEF Base, Wired, Type
<1>3. TypeOK' /\ SeatsAgree'
  BY <1>1 DEF Base, TypeOK, SeatsAgree, Type, seats, match
<1> QED
  BY <1>2, <1>3 DEF Base

\* What a reader takes.
LEMMA GetsIs ==
    ASSUME Base, NEW c \in Client, NEW type, Gets(c, type)
    PROVE  /\ link[c] = "open" /\ toClient[c] # << >> /\ Head(toClient[c]) \in Told
           /\ Head(toClient[c]).type = type /\ toClient[c] = << Head(toClient[c]) >> \o Tail(toClient[c])
           /\ Taken(c) => /\ toClient' \in [Client -> Seq(Told)]
                          /\ toClient'[c] = Tail(toClient[c])
                          /\ \A d \in Client : d # c => toClient'[d] = toClient[d]
<1>1. toClient \in [Client -> Seq(Told)] /\ toClient[c] # << >> /\ toClient[c] \in Seq(Told)
  BY DEF Gets, Base, Wired
<1>2. Head(toClient[c]) \in Told /\ Tail(toClient[c]) \in Seq(Told)
      /\ toClient[c] = << Head(toClient[c]) >> \o Tail(toClient[c])
  BY <1>1
<1> QED
  BY <1>1, <1>2 DEF Gets, Taken

\* What is left of a client that leaves.
LEMMA LeaveIs ==
    ASSUME Base, NEW c \in Client, Leave(c)
    PROVE  /\ toClient' \in [Client -> Seq(Told)] /\ toClient'[c] = << >>
           /\ \A d \in Client : d # c => toClient'[d] = toClient[d]
           /\ link' \in [Client -> {"none", "open", "closed", "gone"}] /\ link'[c] = "closed"
           /\ \A d \in Client : d # c => link'[d] = link[d]
           /\ lines' \in [Client -> 0..MaxLines] /\ firstMoveAcked' \in [Client -> BOOLEAN]
<1>1. 0 \in 0..MaxLines
  BY GameAssumption
<1>2. << >> \in Seq(Told)
  OBVIOUS
<1> QED
  BY <1>1, <1>2 DEF Leave, Base, TypeOK, Wired

\* The server is as it was.
Apart == UNCHANGED << seats, match, owed, claims >>

\* A client's step keeps the types if it keeps those of its own state.
LEMMA BaseApart ==
    ASSUME Base, Apart, toServer' \in [Client -> Seq(Sent)], toClient' \in [Client -> Seq(Told)],
           link' \in [Client -> {"none", "open", "closed", "gone"}],
           lines' \in [Client -> 0..MaxLines], firstMoveAcked' \in [Client -> BOOLEAN]
    PROVE  Base'
<1>1. Wired'
  BY DEF Base, Wired, Apart
<1>2. TypeOK' /\ SeatsAgree'
  BY DEF Base, TypeOK, SeatsAgree, Apart, seats, match
<1> QED
  BY <1>1, <1>2 DEF Base

\* A reader.
LEMMA BaseReader ==
    ASSUME Base, NEW c \in Client, Reader(c)
    PROVE  Base'
<1>0. Base /\ Wired /\ TypeOK
  BY DEF Base
<1>1. CASE HandleAckConnect(c)
  <2>1. Apart /\ Gets(c, "sc_ack_connect")
    BY <1>1 DEF HandleAckConnect, Apart
  <2>2. CASE Head(toClient[c]).success
    <3>1. SendMove(initialCol[c]) \in Sent
      BY GameAssumption DEF Sent
    <3>2. toServer' \in [Client -> Seq(Sent)]
      <4>1. PICK m : m = SendMove(initialCol[c])
        OBVIOUS
      <4>2. toServer' = [toServer EXCEPT ![c] = Append(@, m)]
        BY <1>1, <2>2, <4>1 DEF HandleAckConnect
      <4>3. toServer \in [Client -> Seq(Sent)] /\ m \in Sent
        BY <1>0, <3>1, <4>1 DEF Wired
      <4> QED
        BY <4>2, <4>3
    <3>3. Taken(c) /\ UNCHANGED << link, firstMoveAcked, lines >>
      BY <1>1, <2>2 DEF HandleAckConnect
    <3>4. toClient' \in [Client -> Seq(Told)]
      BY <2>1, <3>3, GetsIs
    <3> QED
      BY <1>0, <2>1, <3>2, <3>3, <3>4, BaseApart DEF TypeOK
  <2>3. CASE ~Head(toClient[c]).success
    <3>1. Leave(c) /\ toServer' = toServer
      BY <1>1, <2>3 DEF HandleAckConnect
    <3> QED
      BY <1>0, <2>1, <3>1, LeaveIs, BaseApart DEF Wired
  <2> QED
    BY <2>2, <2>3
<1>2. CASE HandleNotifyStart(c)
  <2>1. Apart /\ Gets(c, "sc_notify_start") /\ Taken(c)
        /\ UNCHANGED << link, toServer, firstMoveAcked, lines >>
    BY <1>2 DEF HandleNotifyStart, Apart
  <2>2. toClient' \in [Client -> Seq(Told)]
    BY <2>1, GetsIs
  <2> QED
    BY <1>0, <2>1, <2>2, BaseApart DEF TypeOK, Wired
<1>3. CASE HandleResult(c)
  <2>1. Apart /\ toServer' = toServer /\ \E t : Gets(c, t)
    BY <1>3 DEF HandleResult, Apart
  <2>2. CASE Leave(c)
    BY <1>0, <2>1, <2>2, LeaveIs, BaseApart DEF Wired
  <2>3. CASE signalFirstMoveAcked(c) /\ Taken(c) /\ UNCHANGED << link, lines >>
    <3>1. toClient' \in [Client -> Seq(Told)]
      BY <2>1, <2>3, GetsIs
    <3>2. firstMoveAcked' \in [Client -> BOOLEAN]
      BY <1>0, <2>3 DEF TypeOK, signalFirstMoveAcked
    <3> QED
      BY <1>0, <2>1, <2>3, <3>1, <3>2, BaseApart DEF TypeOK, Wired
  <2> QED
    BY <1>3, <2>2, <2>3 DEF HandleResult
<1> QED
  BY <1>1, <1>2, <1>3 DEF Reader

\* A client that ends.
LEMMA BaseEnds ==
    ASSUME Base, NEW c \in Client, CloseAfterInput(c) \/ Interrupt(c)
    PROVE  Base'
<1>1. Apart /\ Leave(c)
  BY DEF CloseAfterInput, Interrupt, Apart
<1>2. toServer' \in [Client -> Seq(Sent)]
  <2>1. CASE CloseAfterInput(c)
    BY <2>1 DEF CloseAfterInput, Base, Wired
  <2>2. CASE Interrupt(c)
    <3>1. PICK k \in 0 .. Len(toServer[c]) : toServer' = [toServer EXCEPT ![c] = SubSeq(@, 1, k)]
      BY <2>2 DEF Interrupt
    <3>2. toServer \in [Client -> Seq(Sent)] /\ toServer[c] \in Seq(Sent)
      BY DEF Base, Wired
    <3>3. SubSeq(toServer[c], 1, k) \in Seq(Sent)
      BY <3>2
    <3> QED
      BY <3>1, <3>2, <3>3
  <2> QED
    BY <2>1, <2>2
<1> QED
  BY <1>1, <1>2, LeaveIs, BaseApart

\* Every step.
LEMMA BaseStep == Base /\ [Next]_vars => Base'
<1> SUFFICES ASSUME Base, [Next]_vars PROVE Base'
  OBVIOUS
<1>1. CASE UNCHANGED vars
  BY <1>1 DEF Base, TypeOK, Wired, SeatsAgree, vars, seats, match, wires
<1>2. ASSUME NEW c \in Client, Goroutine(c) PROVE Base'
  BY <1>2, BaseRefuseConnect, BaseGrantConnect, BaseRefuseMove, BasePlayMove, BaseMakeSend,
     BaseHangup DEF Goroutine
<1>3. ASSUME NEW c \in Client, Dial(c) \/ Reader(c) \/ CloseAfterInput(c) \/ Interrupt(c) PROVE Base'
  BY <1>3, BaseDial, BaseReader, BaseEnds
<1>4. ASSUME NEW c \in Client, NEW msg \in Lines[c], Type(c, msg) PROVE Base'
  BY <1>4, BaseType
<1> QED
  BY <1>1, <1>2, <1>3, <1>4 DEF Next

\* The type invariant, and with it the types of what is on the wires.
THEOREM TypeCorrect == Spec => []TypeOK
<1>1. Base => TypeOK
  BY DEF Base
<1> QED
  BY <1>1, BaseInit, BaseStep, PTL DEF Spec

\* The registry, the taken pieces and the connections agree, through refused,
\* repeated and dropped connects of any number of clients.
THEOREM SeatsStayInStep == Spec => []SeatsAgree
<1>1. Base => SeatsAgree
  BY DEF Base
<1> QED
  BY <1>1, BaseInit, BaseStep, PTL DEF Spec

-----------------------------------------------------------------------------
(* Slots *)

\* A connection holds only pieces it was granted.
Held == \A p \in Piece, c \in Client : playerConns[p] = c => p \in claims[c]

Slots == Held /\ SlotReleased

\* The actions that leave the maps of the server alone.
Elsewhere(c) ==
    RefuseConnect(c) \/ RefuseMove(c) \/ PlayMove(c) \/ MakeSend(c) \/ Dial(c) \/ Reader(c)
      \/ CloseAfterInput(c) \/ Interrupt(c) \/ \E msg \in Lines[c] : Type(c, msg)


\* They leave them alone, and no connection becomes one that is gone.
LEMMA ElsewhereIs ==
    ASSUME Base, NEW c \in Client, Elsewhere(c)
    PROVE  /\ UNCHANGED << playerRegistry, takenPieces, playerConns, claims >>
           /\ \A d \in Client : link'[d] = "gone" => link[d] = "gone"
<1>1. UNCHANGED << playerRegistry, takenPieces, playerConns, claims >>
  BY DEF Elsewhere, RefuseConnect, RefuseMove, PlayMove, MakeSend, Dial, Reader, HandleAckConnect,
     HandleNotifyStart, HandleResult, CloseAfterInput, Interrupt, Type, seats
<1>2. CASE link' = link
  BY <1>1, <1>2
<1>3. CASE Leave(c) \/ Dial(c)
  <2>1. \E v \in {"closed", "open"} : link' = [link EXCEPT ![c] = v]
    BY <1>3 DEF Leave, Dial
  <2> QED
    BY <1>1, <2>1 DEF Base, TypeOK
<1>4. link' = link \/ Leave(c) \/ Dial(c)
  BY DEF Elsewhere, RefuseConnect, RefuseMove, PlayMove, MakeSend, Reader, HandleAckConnect,
     HandleNotifyStart, HandleResult, CloseAfterInput, Interrupt, Type
<1> QED
  BY <1>2, <1>3, <1>4

\* Slots is inductive.
LEMMA SlotsStep ==
    ASSUME Base, Slots, [Next]_vars
    PROVE  Slots'
<1>0. Nil \notin Client \cup Piece
  BY GameAssumption
<1>1. CASE UNCHANGED vars
  BY <1>1 DEF Slots, Held, SlotReleased, vars, seats, match, wires
<1>2. ASSUME NEW c \in Client, Elsewhere(c) PROVE Slots'
  BY <1>2, ElsewhereIs DEF Slots, Held, SlotReleased
<1>3. ASSUME NEW c \in Client, GrantConnect(c) PROVE Slots'
  <2>1. PICK p \in Piece :
              /\ playerConns' = [playerConns EXCEPT ![p] = c]
              /\ claims' = [claims EXCEPT ![c] = @ \cup {p}]
    BY <1>3, GrantIs
  <2>2. link' = link /\ link[c] # "gone"
    BY <1>3 DEF GrantConnect, Reads
  <2>3. claims \in [Client -> SUBSET Piece] /\ playerConns \in [Piece -> Client \cup {Nil}]
    BY DEF Base, Wired, TypeOK
  <2>4. Held'
    BY <2>1, <2>3 DEF Slots, Held
  <2>5. ASSUME NEW q \in Piece, NEW d \in Client, playerConns'[q] = d, link'[d] = "gone"
        PROVE  claims'[d] = Piece /\ playerConns'[Other(q)] # d
    <3>1. d # c /\ q # p /\ playerConns[q] = d /\ link[d] = "gone" /\ claims'[d] = claims[d]
      BY <2>1, <2>2, <2>3, <2>5
    <3>2. claims[d] = Piece /\ playerConns[Other(q)] # d
      BY <3>1 DEF Slots, SlotReleased
    <3> QED
      BY <2>1, <2>3, <3>1, <3>2, PieceIs
  <2> QED
    BY <2>4, <2>5 DEF Slots, SlotReleased
<1>4. ASSUME NEW c \in Client, Hangup(c) PROVE Slots'
  <2>1. claims' = claims /\ link' = [link EXCEPT ![c] = "gone"] /\ claims \in [Client -> SUBSET Piece]
        /\ playerConns \in [Piece -> Client \cup {Nil}]
    BY <1>4 DEF Hangup, Base, Wired, TypeOK
  <2>2. \A d \in Client : d # c => link'[d] = link[d]
    BY <2>1 DEF Base, TypeOK
  <2>3. CASE \A p \in Piece : playerConns[p] # c
    <3>1. playerConns' = playerConns
      BY <1>4, <2>3 DEF Hangup, seats
    <3> QED
      BY <2>1, <2>2, <2>3, <3>1 DEF Slots, Held, SlotReleased
  <2>4. CASE \E p \in Piece : playerConns[p] = c
    <3>1. PICK p \in Piece : playerConns[p] = c /\ playerConns' = [playerConns EXCEPT ![p] = Nil]
      BY <1>4, <2>4 DEF Hangup, Release
    <3>2. Held'
      BY <1>0, <2>1, <3>1 DEF Slots, Held
    <3>3. ASSUME NEW q \in Piece, NEW d \in Client, playerConns'[q] = d, link'[d] = "gone"
          PROVE  claims'[d] = Piece /\ playerConns'[Other(q)] # d
      <4>1. q # p /\ playerConns[q] = d /\ d # Nil
        BY <1>0, <2>1, <3>1, <3>3
      <4>2. CASE d # c
        <5>1. claims[d] = Piece /\ playerConns[Other(q)] # d
          BY <2>2, <3>3, <4>1, <4>2 DEF Slots, SlotReleased
        <5> QED
          BY <2>1, <3>1, <4>1, <5>1, PieceIs
      <4>3. CASE d = c
        <5>1. p \in claims[c] /\ q \in claims[c] /\ p = Other(q)
          BY <3>1, <4>1, <4>3, PieceIs DEF Slots, Held
        <5>2. claims[c] = Piece
          BY <2>1, <4>1, <5>1 DEF Piece
        <5> QED
          BY <2>1, <3>1, <4>1, <4>3, <5>1, <5>2
      <4> QED
        BY <4>2, <4>3
    <3> QED
      BY <3>2, <3>3 DEF Slots, SlotReleased
  <2> QED
    BY <2>3, <2>4
<1> QED
  BY <1>1, <1>2, <1>3, <1>4 DEF Next, Goroutine, Elsewhere

\* A connection that is gone holds no piece, unless it was granted both.
THEOREM SlotsAreReleased == Spec => []SlotReleased
<1>1. Init => Slots
  BY GameAssumption DEF Init, Slots, Held, SlotReleased
<1>2. Slots => SlotReleased
  BY DEF Slots
<1> QED
  BY <1>1, <1>2, BaseInit, BaseStep, SlotsStep, PTL DEF Spec

-----------------------------------------------------------------------------
(* The match *)

\* What is true of the match besides whose turn it is: no piece floats, and as
\* long as the game is not over nobody has a line.
Sound ==
    /\ board = Nil => ~gameOver
    /\ board # Nil => /\ Rests(board)
                      /\ ~gameOver => ~HasLine(board, Player1) /\ ~HasLine(board, Player2)

Match == TurnsAlternate /\ Sound

\* The actions that leave the match alone.
Aside(c) ==
    RefuseConnect(c) \/ RefuseMove(c) \/ MakeSend(c) \/ Hangup(c) \/ Dial(c) \/ Reader(c)
      \/ CloseAfterInput(c) \/ Interrupt(c) \/ \E msg \in Lines[c] : Type(c, msg)

\* They do.
LEMMA AsideIs ==
    ASSUME NEW c \in Client, Aside(c)
    PROVE  UNCHANGED << board, firstPlayer, currentTurn, gameOver >>
  BY DEF Aside, RefuseConnect, RefuseMove, MakeSend, Hangup, Dial, Reader, HandleAckConnect,
     HandleNotifyStart, HandleResult, CloseAfterInput, Interrupt, Type, match

\* The board after a move: who has a line, and that no piece floats.
LEMMA PlayLines ==
    ASSUME Base, Sound, NEW c \in Client, PlayMove(c)
    PROVE  /\ Rests(board')
           /\ CheckWin(board') => HasLine(board', pieceToPlayer(currentTurn))
           /\ ~CheckWin(board') => ~HasLine(board', pieceToPlayer(currentTurn))
           /\ ~HasLine(board', pieceToPlayer(Other(currentTurn)))
           /\ IsFull(board') => Pieces(board', Empty) = 0
<1>1. PICK b, n : b = board /\ n = board'
  OBVIOUS
<1>2. /\ b \in Bs /\ n \in Bs /\ b # Nil /\ ~gameOver /\ currentTurn \in Piece
  BY <1>1, PlayIs
<1>3. PICK row \in 0 .. boardRows - 1, col \in 0 .. boardCols - 1 :
         Drops(b, n, row, col, pieceToPlayer(currentTurn))
  BY <1>1, PlayIs
<1>4. PICK q, o : q = pieceToPlayer(currentTurn) /\ o = pieceToPlayer(Other(currentTurn))
  OBVIOUS
<1>5. q \in {Player1, Player2} /\ o \in {Player1, Player2} /\ o # q
  BY <1>2, <1>4, PieceIs
<1>6. Drops(b, n, row, col, q)
  BY <1>3, <1>4
<1>7. Rests(b) /\ ~HasLine(b, q) /\ ~HasLine(b, o)
  BY <1>1, <1>2, <1>5 DEF Sound
<1>8. boardRows \in Nat \ {0} /\ boardCols \in Nat /\ boardM \in Nat \ {0}
  BY GameAssumption
<1>9. b \in Boards(boardRows, boardCols, boardM) /\ n \in Boards(boardRows, boardCols, boardM)
  BY <1>2 DEF Bs
<1>10. n.LastMove = << row, col, q >> /\ n.Grid[row][col] = q
  <2>1. b.Rows = boardRows /\ b.Cols = boardCols
    BY <1>9 DEF Boards
  <2> QED
    BY <1>6, <2>1 DEF Drops
<1>11. Rests(n)
  BY <1>6, <1>7, <1>8, <1>9, MoveRests
<1>12. CheckWin(n) => HasLine(n, q)
  BY <1>8, <1>9, <1>10, WinIsLine
<1>13. ~CheckWin(n) => ~HasLine(n, q)
  BY <1>6, <1>7, <1>8, <1>9, LineIsWin
<1>14. ~HasLine(n, o)
  BY <1>5, <1>6, <1>7, <1>8, <1>9, OtherLine
<1>15. IsFull(n) => Pieces(n, Empty) = 0
  BY <1>8, <1>9, <1>11, FullIsFull
<1> QED
  BY <1>1, <1>4, <1>11, <1>12, <1>13, <1>14, <1>15

\* A move keeps the match as it must be.
LEMMA MatchPlayMove ==
    ASSUME Base, Match, NEW c \in Client, PlayMove(c)
    PROVE  Match'
<1>1. /\ board # Nil /\ board \in Bs /\ board' \in Bs /\ firstPlayer \in Piece /\ currentTurn \in Piece
      /\ ~gameOver /\ gameOver' = (CheckWin(board') \/ IsFull(board'))
      /\ currentTurn' = IF gameOver' THEN currentTurn ELSE Other(currentTurn)
      /\ firstPlayer' = firstPlayer
  BY PlayIs
<1>2. board' # Nil
  BY <1>1, GameAssumption DEF Bs
<1>3. Sound'
  <2>1. /\ Rests(board') /\ ~HasLine(board', pieceToPlayer(Other(currentTurn)))
        /\ ~CheckWin(board') => ~HasLine(board', pieceToPlayer(currentTurn))
    BY PlayLines DEF Match
  <2>2. \A x \in {Player1, Player2} : x = pieceToPlayer(currentTurn) \/ x = pieceToPlayer(Other(currentTurn))
    BY <1>1 DEF Piece, pieceToPlayer, Other
  <2>3. ~gameOver' => ~CheckWin(board')
    BY <1>1
  <2>4. ~gameOver' => ~HasLine(board', Player1) /\ ~HasLine(board', Player2)
    BY <2>1, <2>2, <2>3
  <2> QED
    BY <1>2, <2>1, <2>4 DEF Sound
<1> DEFINE F == Pieces(board, pieceToPlayer(firstPlayer))
           S == Pieces(board, pieceToPlayer(Other(firstPlayer)))
           NF == Pieces(board', pieceToPlayer(firstPlayer))
           NS == Pieces(board', pieceToPlayer(Other(firstPlayer)))
<1>4. PICK row, col : Drops(board, board', row, col, pieceToPlayer(currentTurn))
  BY PlayIs
<1>5. boardRows \in Nat /\ boardCols \in Nat /\ boardM \in Nat
  BY GameAssumption
<1>6. ASSUME NEW q \in {Player1, Player2}
      PROVE  /\ Pieces(board, q) \in Nat
             /\ Pieces(board', q) =
                  Pieces(board, q) + IF q = pieceToPlayer(currentTurn) THEN 1 ELSE 0
  <2>1. PICK b, n, pl : b = board /\ n = board' /\ pl = pieceToPlayer(currentTurn)
    OBVIOUS
  <2>2. b \in Boards(boardRows, boardCols, boardM) /\ n \in Boards(boardRows, boardCols, boardM)
        /\ Drops(b, n, row, col, pl)
    BY <1>1, <1>4, <2>1 DEF Bs
  <2>3. Pieces(b, q) \in Nat /\ Pieces(n, q) = Pieces(b, q) + IF q = pl THEN 1 ELSE 0
    BY <1>5, <2>2, MoveCounts
  <2> QED
    BY <2>1, <2>3
<1>7. /\ pieceToPlayer(firstPlayer) \in {Player1, Player2} /\ Other(firstPlayer) \in Piece
      /\ pieceToPlayer(Other(firstPlayer)) \in {Player1, Player2}
      /\ pieceToPlayer(Other(firstPlayer)) # pieceToPlayer(firstPlayer)
      /\ currentTurn # firstPlayer => currentTurn = Other(firstPlayer)
      /\ Other(currentTurn) # currentTurn /\ Other(Other(firstPlayer)) = firstPlayer
  BY <1>1, PieceIs
<1>8. F \in Nat /\ S \in Nat
  BY <1>6, <1>7
<1>9. IF currentTurn = firstPlayer THEN F = S ELSE F = S + 1
  BY <1>1 DEF Match, TurnsAlternate
<1>10. CASE currentTurn = firstPlayer
  <2>1. NF = F + 1 /\ NS = S
    BY <1>6, <1>7, <1>8, <1>10
  <2>2. NF = NS + 1
    BY <1>8, <1>9, <1>10, <2>1
  <2>3. (currentTurn' = firstPlayer) <=> gameOver'
    BY <1>1, <1>7, <1>10
  <2> QED
    BY <1>1, <1>3, <2>2, <2>3 DEF Match, TurnsAlternate
<1>11. CASE currentTurn # firstPlayer
  <2>1. NF = F /\ NS = S + 1
    BY <1>6, <1>7, <1>8, <1>11
  <2>2. NF = NS
    BY <1>8, <1>9, <1>11, <2>1
  <2>3. ~((currentTurn' = firstPlayer) <=> gameOver')
    BY <1>1, <1>7, <1>11
  <2> QED
    BY <1>1, <1>3, <2>2, <2>3 DEF Match, TurnsAlternate
<1> QED
  BY <1>10, <1>11

\* A granted connect keeps the match as it must be.
LEMMA MatchGrantConnect ==
    ASSUME Base, Match, NEW c \in Client, GrantConnect(c)
    PROVE  Match'
<1>1. PICK p \in Piece :
              IF board = Nil
                 THEN board' = NewBoard(boardRows, boardCols, boardM)
                        /\ firstPlayer' = p /\ currentTurn' = p
                 ELSE UNCHANGED << board, firstPlayer, currentTurn >>
  BY GrantIs
<1>2. gameOver' = gameOver
  BY DEF GrantConnect
<1>3. CASE board # Nil
  BY <1>1, <1>2, <1>3 DEF Match, TurnsAlternate, Sound
<1>4. CASE board = Nil
  <2>1. ~gameOver'
    BY <1>2, <1>4 DEF Match, Sound
  <2>2. PICK n : n = NewBoard(boardRows, boardCols, boardM)
    OBVIOUS
  <2>3. /\ Rests(n)
        /\ \A q \in {Player1, Player2} : Pieces(n, q) = 0 /\ ~HasLine(n, q)
    BY <2>2, NewBoardIs, GameAssumption
  <2>4. board' = n /\ firstPlayer' = p /\ currentTurn' = p
    BY <1>1, <1>4, <2>2
  <2>5. Pieces(n, pieceToPlayer(p)) = 0 /\ Pieces(n, pieceToPlayer(Other(p))) = 0
    BY <2>3, PieceIs
  <2>6. TurnsAlternate'
    BY <2>1, <2>4, <2>5 DEF TurnsAlternate
  <2>7. Sound'
    BY <2>1, <2>3, <2>4 DEF Sound
  <2> QED
    BY <2>6, <2>7 DEF Match
<1> QED
  BY <1>3, <1>4

\* Match is inductive.
LEMMA MatchStep ==
    ASSUME Base, Match, [Next]_vars
    PROVE  Match'
<1>1. CASE UNCHANGED vars
  BY <1>1 DEF Match, TurnsAlternate, Sound, vars, match
<1>2. ASSUME NEW c \in Client, Aside(c) PROVE Match'
  BY <1>2, AsideIs DEF Match, TurnsAlternate, Sound
<1> QED
  BY <1>1, <1>2, MatchPlayMove, MatchGrantConnect DEF Next, Goroutine, Aside

\* The pieces move in turn, whichever clients play them.
THEOREM TurnsDoAlternate == Spec => []TurnsAlternate
<1>1. Init => Match
  BY DEF Init, Match, TurnsAlternate, Sound
<1>2. Match => TurnsAlternate
  BY DEF Match
<1> QED
  BY <1>1, <1>2, BaseInit, BaseStep, MatchStep, PTL DEF Spec

-----------------------------------------------------------------------------
(* Messages on their way to a client *)

Owing(x, m) == \E d \in Client : \E i \in 1 .. Len(owed[d]) : owed[d][i] = [to |-> x, msg |-> m]
Coming(x, m) == \E i \in 1 .. Len(toClient[x]) : toClient[x][i] = m

\* What the server still owes client x or has sent it.
Mail(x) == {m \in Told : Owing(x, m) \/ Coming(x, m)}

\* One of a list of sends.
Among(s, x, m) == \E i \in 1 .. Len(s) : s[i] = [to |-> x, msg |-> m]

\* What is in flight is on its way to some client.
LEMMA FlightIsMail ==
    ASSUME Base, NEW m \in InFlight
    PROVE  \E x \in Client : m \in Mail(x)
<1>1. toClient \in [Client -> Seq(Told)] /\ owed \in [Client -> Seq(Sends)]
  BY DEF Base, Wired
<1>2. CASE \E c \in Client : \E i \in 1 .. Len(toClient[c]) : m = toClient[c][i]
  <2>0. PICK c \in Client : \E i \in 1 .. Len(toClient[c]) : m = toClient[c][i]
    BY <1>2
  <2>1. PICK i \in 1 .. Len(toClient[c]) : m = toClient[c][i]
    BY <2>0
  <2>2. m \in Told
    BY <1>1, <2>1
  <2> QED
    BY <2>1, <2>2 DEF Mail, Coming
<1>3. CASE \E c \in Client : \E i \in 1 .. Len(owed[c]) : m = owed[c][i].msg
  <2>0. PICK c \in Client : \E i \in 1 .. Len(owed[c]) : m = owed[c][i].msg
    BY <1>3
  <2>1. PICK i \in 1 .. Len(owed[c]) : m = owed[c][i].msg
    BY <2>0
  <2>2. owed[c][i] \in Sends
    BY <1>1, <2>1
  <2>3. PICK x \in Client, t \in Told : owed[c][i] = [to |-> x, msg |-> t]
    BY <2>2 DEF Sends
  <2>4. m = t
    BY <2>1, <2>3
  <2> QED
    BY <2>3, <2>4 DEF Mail, Owing
<1>4. \/ \E c \in Client : \E i \in 1 .. Len(toClient[c]) : m = toClient[c][i]
      \/ \E c \in Client : \E i \in 1 .. Len(owed[c]) : m = owed[c][i].msg
  <2> DEFINE A == {{owed[c][i].msg : i \in 1 .. Len(owed[c])} : c \in Client}
             B == {{toClient[c][i] : i \in 1 .. Len(toClient[c])} : c \in Client}
  <2>0. InFlight = (UNION A) \cup (UNION B)
    BY DEF InFlight
  <2>1. m \in UNION A \/ m \in UNION B
    <3> HIDE DEF A, B
    <3> QED
      BY <2>0
  <2>2. ASSUME NEW a \in A, m \in a
        PROVE  \E c \in Client : \E i \in 1 .. Len(owed[c]) : m = owed[c][i].msg
    BY <2>2
  <2>3. ASSUME NEW a \in B, m \in a
        PROVE  \E c \in Client : \E i \in 1 .. Len(toClient[c]) : m = toClient[c][i]
    BY <2>3
  <2> HIDE DEF A, B
  <2>4. (\E a \in A : m \in a) \/ (\E a \in B : m \in a)
    BY <2>1
  <2> QED
    BY <2>2, <2>3, <2>4
<1> QED
  BY <1>2, <1>3, <1>4

\* A goroutine that owes more sends: these come on top.
LEMMA MailOwes ==
    ASSUME Base, NEW c \in Client, NEW s \in Seq(Sends), Owes(c, s), toClient' = toClient,
           NEW x \in Client, NEW m \in Told
    PROVE  m \in Mail(x)' <=> m \in Mail(x) \/ Among(s, x, m)
<1>1. /\ owed' \in [Client -> Seq(Sends)] /\ owed'[c] = owed[c] \o s
      /\ \A d \in Client : d # c => owed'[d] = owed[d]
  BY OwesIs DEF Base, Wired
<1>2. owed[c] \in Seq(Sends)
  BY DEF Base, Wired
<1>3. PICK o : o = owed[c]
  OBVIOUS
<1>4. /\ Len(o \o s) = Len(o) + Len(s) /\ Len(o) \in Nat /\ Len(s) \in Nat
      /\ \A i \in 1 .. Len(o) : (o \o s)[i] = o[i]
      /\ \A i \in 1 .. Len(s) : (o \o s)[Len(o) + i] = s[i]
  BY <1>2, <1>3
<1>5. ASSUME Among(s, x, m) PROVE Owing(x, m)'
  <2>1. PICK i \in 1 .. Len(s) : s[i] = [to |-> x, msg |-> m]
    BY <1>5 DEF Among
  <2>2. Len(o) + i \in 1 .. Len(o \o s) /\ (o \o s)[Len(o) + i] = s[i]
    BY <1>4
  <2> QED
    BY <1>1, <1>3, <2>1, <2>2 DEF Owing
<1>6. ASSUME Owing(x, m) PROVE Owing(x, m)'
  <2>0. PICK d \in Client : \E i \in 1 .. Len(owed[d]) : owed[d][i] = [to |-> x, msg |-> m]
    BY <1>6 DEF Owing
  <2>1. PICK i \in 1 .. Len(owed[d]) : owed[d][i] = [to |-> x, msg |-> m]
    BY <2>0
  <2>2. CASE d # c
    BY <1>1, <2>1, <2>2 DEF Owing
  <2>3. CASE d = c
    <3>1. i \in 1 .. Len(o \o s) /\ (o \o s)[i] = o[i]
      BY <1>3, <1>4, <2>1, <2>3
    <3> QED
      BY <1>1, <1>3, <2>1, <2>3, <3>1 DEF Owing
  <2> QED
    BY <2>2, <2>3
<1>7. ASSUME Owing(x, m)' PROVE Owing(x, m) \/ Among(s, x, m)
  <2>1. PICK d \in Client : \E i \in 1 .. Len(owed'[d]) : owed'[d][i] = [to |-> x, msg |-> m]
    BY <1>7 DEF Owing
  <2>2. CASE d # c
    BY <1>1, <2>1, <2>2 DEF Owing
  <2>3. CASE d = c
    <3>1. PICK i \in 1 .. Len(o \o s) : (o \o s)[i] = [to |-> x, msg |-> m]
      BY <1>1, <1>3, <2>1, <2>3
    <3>2. CASE i <= Len(o)
      <4>1. i \in 1 .. Len(o)
        BY <1>4, <3>2
      <4> QED
        BY <1>3, <1>4, <3>1, <4>1 DEF Owing
    <3>3. CASE i > Len(o)
      <4>1. i - Len(o) \in 1 .. Len(s) /\ Len(o) + (i - Len(o)) = i
        BY <1>4, <3>3
      <4>2. s[i - Len(o)] = [to |-> x, msg |-> m]
        BY <1>4, <3>1, <4>1
      <4> QED
        BY <4>1, <4>2 DEF Among
    <3> QED
      BY <1>4, <3>2, <3>3
  <2> QED
    BY <2>2, <2>3
<1>8. Coming(x, m)' <=> Coming(x, m)
  BY DEF Coming
<1> QED
  BY <1>5, <1>6, <1>7, <1>8 DEF Mail

\* A list of sends that starts with s.
LEMMA HeadAndTail ==
    ASSUME NEW S, NEW q \in Seq(S), q # << >>
    PROVE  /\ \A i \in 1 .. Len(q) : q[i] = Head(q) \/ \E j \in 1 .. Len(Tail(q)) : Tail(q)[j] = q[i]
           /\ \A j \in 1 .. Len(Tail(q)) : \E i \in 1 .. Len(q) : q[i] = Tail(q)[j]
           /\ \E i \in 1 .. Len(q) : q[i] = Head(q)
<1>1. Len(q) \in Nat \ {0} /\ Len(Tail(q)) = Len(q) - 1 /\ Head(q) = q[1]
      /\ \A j \in 1 .. Len(Tail(q)) : Tail(q)[j] = q[j + 1]
  OBVIOUS
<1>2. ASSUME NEW i \in 1 .. Len(q), i # 1 PROVE \E j \in 1 .. Len(Tail(q)) : Tail(q)[j] = q[i]
  <2>1. i - 1 \in 1 .. Len(Tail(q)) /\ (i - 1) + 1 = i
    BY <1>1, <1>2
  <2> QED
    BY <1>1, <2>1
<1>3. ASSUME NEW j \in 1 .. Len(Tail(q)) PROVE \E i \in 1 .. Len(q) : q[i] = Tail(q)[j]
  <2>1. j + 1 \in 1 .. Len(q)
    BY <1>1
  <2> QED
    BY <1>1, <2>1
<1>4. 1 \in 1 .. Len(q)
  BY <1>1
<1> QED
  BY <1>1, <1>2, <1>3, <1>4

\* A send: what was owed has come, to a client that is there.
LEMMA MailSend ==
    ASSUME Base, NEW c \in Client, MakeSend(c), NEW x \in Client, NEW m \in Told
    PROVE  /\ m \in Mail(x)' => m \in Mail(x)
           /\ m \in Mail(x) /\ link[x] = "open" => m \in Mail(x)'
<1>1. PICK s \in Sends :
              /\ owed[c] # << >> /\ s = Head(owed[c])
              /\ owed' \in [Client -> Seq(Sends)] /\ owed'[c] = Tail(owed[c])
              /\ \A d \in Client : d # c => owed'[d] = owed[d]
              /\ toClient' = IF link[s.to] = "open"
                             THEN [toClient EXCEPT ![s.to] = Append(@, s.msg)] ELSE toClient
  BY MakeSendIs
<1>2. owed[c] \in Seq(Sends) /\ toClient \in [Client -> Seq(Told)]
  BY DEF Base, Wired
<1>3. PICK o : o = owed[c]
  OBVIOUS
<1>4. /\ \A i \in 1 .. Len(o) : o[i] = s \/ \E j \in 1 .. Len(Tail(o)) : Tail(o)[j] = o[i]
      /\ \A j \in 1 .. Len(Tail(o)) : \E i \in 1 .. Len(o) : o[i] = Tail(o)[j]
      /\ \E i \in 1 .. Len(o) : o[i] = s
  BY <1>1, <1>2, <1>3, HeadAndTail
<1>5. s.to \in Client /\ s.msg \in Told /\ s = [to |-> s.to, msg |-> s.msg]
  BY <1>1 DEF Sends
<1>6. Owing(x, m)' => Owing(x, m)
  <2>1. ASSUME NEW d \in Client, d # c, NEW i \in 1 .. Len(owed'[d]), owed'[d][i] = [to |-> x, msg |-> m]
        PROVE  Owing(x, m)
    BY <1>1, <2>1 DEF Owing
  <2>2. ASSUME NEW i \in 1 .. Len(owed'[c]), owed'[c][i] = [to |-> x, msg |-> m]
        PROVE  Owing(x, m)
    <3>1. i \in 1 .. Len(Tail(o)) /\ Tail(o)[i] = [to |-> x, msg |-> m]
      BY <1>1, <1>3, <2>2
    <3>2. PICK k \in 1 .. Len(o) : o[k] = Tail(o)[i]
      BY <1>4, <3>1
    <3> QED
      BY <1>3, <3>1, <3>2 DEF Owing
  <2> QED
    BY <2>1, <2>2 DEF Owing
<1>7. Owing(x, m) => Owing(x, m)' \/ s = [to |-> x, msg |-> m]
  <2>1. ASSUME NEW d \in Client, d # c, NEW i \in 1 .. Len(owed[d]), owed[d][i] = [to |-> x, msg |-> m]
        PROVE  Owing(x, m)'
    BY <1>1, <2>1 DEF Owing
  <2>2. ASSUME NEW i \in 1 .. Len(o), o[i] = [to |-> x, msg |-> m], o[i] # s
        PROVE  Owing(x, m)'
    <3>1. PICK j \in 1 .. Len(Tail(o)) : Tail(o)[j] = o[i]
      BY <1>4, <2>2
    <3> QED
      BY <1>1, <1>3, <2>2, <3>1 DEF Owing
  <2> QED
    BY <1>3, <2>1, <2>2 DEF Owing
<1>8. Coming(x, m)' => Coming(x, m) \/ s = [to |-> x, msg |-> m]
  <2>1. CASE toClient'[x] = toClient[x]
    BY <2>1 DEF Coming
  <2>2. CASE s.to = x /\ toClient'[x] = Append(toClient[x], s.msg)
    <3>1. PICK q : q = toClient[x]
      OBVIOUS
    <3>2. q \in Seq(Told)
      BY <1>2, <3>1
    <3>3. \A i \in 1 .. Len(Append(q, s.msg)) :
             Append(q, s.msg)[i] = s.msg \/ (i \in 1 .. Len(q) /\ Append(q, s.msg)[i] = q[i])
      BY <1>5, <3>2
    <3> QED
      BY <1>5, <2>2, <3>1, <3>3 DEF Coming
  <2> QED
    BY <1>1, <1>2, <1>5, <2>1, <2>2
<1>9. ASSUME Coming(x, m) \/ s = [to |-> x, msg |-> m], link[x] = "open" PROVE Coming(x, m)'
  <2>1. CASE s.to # x
    <3>1. toClient'[x] = toClient[x] /\ s # [to |-> x, msg |-> m]
      BY <1>1, <1>2, <1>5, <2>1
    <3> QED
      BY <1>9, <3>1 DEF Coming
  <2>2. CASE s.to = x
    <3>1. PICK q : q = toClient[x]
      OBVIOUS
    <3>2. q \in Seq(Told) /\ toClient'[x] = Append(q, s.msg)
      BY <1>1, <1>2, <1>9, <2>2, <3>1
    <3>3. /\ \A i \in 1 .. Len(q) : i \in 1 .. Len(Append(q, s.msg)) /\ Append(q, s.msg)[i] = q[i]
          /\ Len(q) + 1 \in 1 .. Len(Append(q, s.msg)) /\ Append(q, s.msg)[Len(q) + 1] = s.msg
      BY <1>5, <3>2
    <3>4. CASE Coming(x, m)
      BY <3>1, <3>2, <3>3, <3>4 DEF Coming
    <3>5. CASE s = [to |-> x, msg |-> m]
      <4>1. s.msg = m
        BY <3>5
      <4> QED
        BY <3>2, <3>3, <4>1 DEF Coming
    <3> QED
      BY <1>9, <3>4, <3>5
  <2> QED
    BY <2>1, <2>2
<1>10. s = [to |-> x, msg |-> m] => Owing(x, m)
  BY <1>3, <1>4 DEF Owing
<1> QED
  BY <1>6, <1>7, <1>8, <1>9, <1>10 DEF Mail

\* A client that takes a message.
LEMMA MailTaken ==
    ASSUME Base, NEW c \in Client, NEW type, Gets(c, type), Taken(c), owed' = owed,
           NEW x \in Client, NEW m \in Told
    PROVE  /\ m \in Mail(x)' => m \in Mail(x)
           /\ m \in Mail(x) => m \in Mail(x)' \/ (x = c /\ m = Head(toClient[c]))
<1>1. /\ toClient'[c] = Tail(toClient[c]) /\ toClient[c] # << >>
      /\ \A d \in Client : d # c => toClient'[d] = toClient[d]
  BY GetsIs
<1>2. toClient[c] \in Seq(Told)
  BY DEF Base, Wired
<1>3. PICK q : q = toClient[c]
  OBVIOUS
<1>4. /\ \A i \in 1 .. Len(q) : q[i] = Head(q) \/ \E j \in 1 .. Len(Tail(q)) : Tail(q)[j] = q[i]
      /\ \A j \in 1 .. Len(Tail(q)) : \E i \in 1 .. Len(q) : q[i] = Tail(q)[j]
  BY <1>1, <1>2, <1>3, HeadAndTail
<1>5. Owing(x, m)' <=> Owing(x, m)
  BY DEF Owing
<1>6. CASE x # c
  BY <1>1, <1>5, <1>6 DEF Mail, Coming
<1>7. CASE x = c
  <2>3. Coming(x, m)' <=> \E j \in 1 .. Len(Tail(q)) : Tail(q)[j] = m
    BY <1>1, <1>3, <1>7 DEF Coming
  <2>4. Coming(x, m) <=> \E i \in 1 .. Len(q) : q[i] = m
    BY <1>3, <1>7 DEF Coming
  <2>1. Coming(x, m)' => Coming(x, m)
    BY <1>4, <2>3, <2>4
  <2>2. Coming(x, m) => Coming(x, m)' \/ m = Head(q)
    BY <1>4, <2>3, <2>4
  <2> QED
    BY <1>3, <1>5, <1>7, <2>1, <2>2 DEF Mail
<1> QED
  BY <1>6, <1>7

\* A client that leaves.
LEMMA MailLeave ==
    ASSUME Base, NEW c \in Client, Leave(c), owed' = owed, NEW x \in Client, NEW m \in Told
    PROVE  /\ m \in Mail(x)' => m \in Mail(x)
           /\ x # c => (m \in Mail(x) <=> m \in Mail(x)')
<1>1. toClient'[c] = << >> /\ \A d \in Client : d # c => toClient'[d] = toClient[d]
  BY LeaveIs
<1>2. Owing(x, m)' <=> Owing(x, m)
  BY DEF Owing
<1>3. x = c => ~Coming(x, m)'
  BY <1>1 DEF Coming
<1>4. x # c => (Coming(x, m)' <=> Coming(x, m))
  BY <1>1 DEF Coming
<1> QED
  BY <1>2, <1>3, <1>4 DEF Mail

\* A list of one send.
LEMMA AmongOne ==
    ASSUME NEW c \in Client, NEW t \in Told, NEW x, NEW m
    PROVE  Among(Send(c, t), x, m) <=> x = c /\ m = t
<1>1. Len(Send(c, t)) = 1 /\ Send(c, t)[1] = [to |-> c, msg |-> t]
  BY SendIs
<1>2. Among(Send(c, t), x, m) <=> Send(c, t)[1] = [to |-> x, msg |-> m]
  BY <1>1 DEF Among
<1>3. [to |-> c, msg |-> t] = [to |-> x, msg |-> m] <=> x = c /\ m = t
  OBVIOUS
<1> QED
  BY <1>1, <1>2, <1>3

\* One of two lists.
LEMMA AmongTwo ==
    ASSUME NEW r \in Seq(Sends), NEW s \in Seq(Sends), NEW x, NEW m
    PROVE  Among(r \o s, x, m) <=> Among(r, x, m) \/ Among(s, x, m)
<1>1. /\ Len(r \o s) = Len(r) + Len(s) /\ Len(r) \in Nat /\ Len(s) \in Nat
      /\ \A i \in 1 .. Len(r) : (r \o s)[i] = r[i]
      /\ \A i \in 1 .. Len(s) : (r \o s)[Len(r) + i] = s[i]
  OBVIOUS
<1>2. ASSUME NEW i \in 1 .. Len(r), r[i] = [to |-> x, msg |-> m] PROVE Among(r \o s, x, m)
  <2>1. i \in 1 .. Len(r \o s) /\ (r \o s)[i] = r[i]
    BY <1>1
  <2> QED
    BY <1>2, <2>1 DEF Among
<1>3. ASSUME NEW i \in 1 .. Len(s), s[i] = [to |-> x, msg |-> m] PROVE Among(r \o s, x, m)
  <2>1. Len(r) + i \in 1 .. Len(r \o s) /\ (r \o s)[Len(r) + i] = s[i]
    BY <1>1
  <2> QED
    BY <1>3, <2>1 DEF Among
<1>4. ASSUME NEW i \in 1 .. Len(r \o s), (r \o s)[i] = [to |-> x, msg |-> m]
      PROVE  Among(r, x, m) \/ Among(s, x, m)
  <2>1. CASE i <= Len(r)
    <3>1. i \in 1 .. Len(r)
      BY <1>1, <2>1
    <3> QED
      BY <1>1, <1>4, <3>1 DEF Among
  <2>2. CASE i > Len(r)
    <3>1. i - Len(r) \in 1 .. Len(s) /\ Len(r) + (i - Len(r)) = i
      BY <1>1, <2>2
    <3>2. s[i - Len(r)] = [to |-> x, msg |-> m]
      BY <1>1, <1>4, <3>1
    <3> QED
      BY <3>1, <3>2 DEF Among
  <2> QED
    BY <1>1, <2>1, <2>2
<1> QED
  BY <1>2, <1>3, <1>4 DEF Among

\* The mail after a refusal, of a connect or of a move.
LEMMA MailRefuse ==
    ASSUME Base, NEW c \in Client, NEW t \in Told, Owes(c, Send(c, t)), toClient' = toClient,
           NEW x \in Client, NEW m \in Told
    PROVE  m \in Mail(x)' <=> m \in Mail(x) \/ (x = c /\ m = t)
<1>1. Send(c, t) \in Seq(Sends)
  BY SendIs
<1> QED
  BY <1>1, MailOwes, AmongOne

\* What is owed after a granted connect: the answer, and the news of the start.
LEMMA GrantSends ==
    ASSUME Base, NEW c \in Client, GrantConnect(c)
    PROVE  \E s \in Seq(Sends) :
              /\ Owes(c, s) /\ Among(s, c, AckConnect(TRUE))
              /\ \A x \in Client, m \in Told : Among(s, x, m) =>
                    \/ m.type = "sc_ack_connect"
                    \/ m.type = "sc_notify_start" /\ m.board = String(board')
<1>1. PICK t, b : t = currentTurn' /\ b = board'
  OBVIOUS
<1>2. t \in Piece /\ b \in Bs
  BY <1>1, GrantIs
<1> DEFINE start(q, o) == Send(playerConns'[q], NotifyStart(o, t, String(b)))
           both == takenPieces'["X"] /\ takenPieces'["O"]
           rest == IF both THEN start("X", "O") \o start("O", "X") ELSE << >>
           ack == Send(c, AckConnect(TRUE))
           Started(m) == m.type = "sc_notify_start" /\ m.board = String(b)
<1>3. Owes(c, ack \o rest)
  BY <1>1 DEF GrantConnect
<1>4. AckConnect(TRUE) \in Told /\ AckConnect(TRUE).type = "sc_ack_connect"
  BY ToldIs DEF AckConnect
<1>5. /\ ack \in Seq(Sends)
      /\ \A x \in Client, m \in Told : Among(ack, x, m) => m = AckConnect(TRUE)
      /\ Among(ack, c, AckConnect(TRUE))
  BY <1>4, SendIs, AmongOne
<1>6. rest \in Seq(Sends) /\ \A x \in Client, m \in Told : Among(rest, x, m) => Started(m)
  <2>1. CASE both
    <3>1. "X" \in Piece /\ "O" \in Piece
      BY DEF Piece
    <3>2. playerConns'["X"] \in Client /\ playerConns'["O"] \in Client
      <4>1. Base'
        BY BaseGrantConnect
      <4>2. TypeOK' /\ SeatsAgree'
        BY <4>1 DEF Base
      <4> QED
        BY <2>1, <3>1, <4>2 DEF TypeOK, SeatsAgree
    <3>3. NotifyStart("O", t, String(b)) \in Told /\ NotifyStart("X", t, String(b)) \in Told
      BY <1>2, <3>1, ToldIs
    <3>4. start("X", "O") \in Seq(Sends) /\ start("O", "X") \in Seq(Sends)
      BY <3>2, <3>3, SendIs
    <3>5. \A x \in Client, m \in Told :
            /\ Among(start("X", "O"), x, m) => m = NotifyStart("O", t, String(b))
            /\ Among(start("O", "X"), x, m) => m = NotifyStart("X", t, String(b))
      BY <3>2, <3>3, AmongOne
    <3>6. \A o : Started(NotifyStart(o, t, String(b)))
      BY DEF NotifyStart
    <3>7. PICK u, v : u = start("X", "O") /\ v = start("O", "X")
      OBVIOUS
    <3> HIDE DEF start, Started
    <3>8. rest = u \o v /\ u \in Seq(Sends) /\ v \in Seq(Sends)
      BY <2>1, <3>4, <3>7
    <3>9. ASSUME NEW x \in Client, NEW m \in Told, Among(u \o v, x, m) PROVE Started(m)
      BY <3>5, <3>6, <3>7, <3>8, <3>9, AmongTwo
    <3>10. u \o v \in Seq(Sends)
      BY <3>8
    <3> QED
      BY <3>8, <3>9, <3>10
  <2>2. CASE ~both
    BY <2>2 DEF Among
  <2> QED
    BY <2>1, <2>2
<1>7. PICK a, r : a = ack /\ r = rest
  OBVIOUS
<1> HIDE DEF ack, rest
<1>8. a \in Seq(Sends) /\ r \in Seq(Sends) /\ a \o r \in Seq(Sends) /\ Owes(c, a \o r)
  BY <1>3, <1>5, <1>6, <1>7
<1>9. ASSUME NEW x \in Client, NEW m \in Told, Among(a \o r, x, m)
      PROVE  m.type = "sc_ack_connect" \/ Started(m)
  <2> HIDE DEF Started
  <2>1. Among(a, x, m) \/ Among(r, x, m)
    BY <1>8, <1>9, AmongTwo
  <2>2. CASE Among(a, x, m)
    <3>1. m = AckConnect(TRUE)
      BY <1>5, <1>7, <2>2
    <3> QED
      BY <1>4, <3>1
  <2>3. CASE Among(r, x, m)
    BY <1>6, <1>7, <2>3
  <2> QED
    BY <2>1, <2>2, <2>3
<1>10. Among(a \o r, c, AckConnect(TRUE))
  BY <1>5, <1>7, <1>8, AmongTwo
<1> QED
  BY <1>1, <1>8, <1>9, <1>10

\* The mail after a granted connect.
LEMMA MailGrant ==
    ASSUME Base, NEW c \in Client, GrantConnect(c), NEW x \in Client, NEW m \in Told
    PROVE  /\ m \in Mail(x) => m \in Mail(x)'
           /\ m \in Mail(x)' => m \in Mail(x) \/ m.type \in {"sc_ack_connect", "sc_notify_start"}
           /\ x = c /\ m = AckConnect(TRUE) => m \in Mail(x)'
<1>1. PICK s \in Seq(Sends) :
              /\ Owes(c, s) /\ Among(s, c, AckConnect(TRUE))
              /\ \A y \in Client, t \in Told : Among(s, y, t) =>
                    \/ t.type = "sc_ack_connect"
                    \/ t.type = "sc_notify_start" /\ t.board = String(board')
  BY GrantSends
<1>2. toClient' = toClient
  BY DEF GrantConnect
<1>3. m \in Mail(x)' <=> m \in Mail(x) \/ Among(s, x, m)
  BY <1>1, <1>2, MailOwes
<1> QED
  BY <1>1, <1>3

\* The mail after a move.
LEMMA MailPlay ==
    ASSUME Base, NEW c \in Client, PlayMove(c), NEW x \in Client, NEW m \in Told
    PROVE  /\ m \in Mail(x) => m \in Mail(x)'
           /\ m \in Mail(x)' => m \in Mail(x) \/ m = Verdict(currentTurn)
           /\ (\E p \in Piece : playerConns[p] = x) /\ m = Verdict(currentTurn) => m \in Mail(x)'
<1>1. PICK v : v = Verdict(currentTurn)
  OBVIOUS
<1>2. v \in Told /\ Owes(c, Broadcast(v))
  BY <1>1, PlayIs
<1>3. PICK s : s = Broadcast(v)
  OBVIOUS
<1>4. /\ s \in Seq(Sends)
      /\ \A i \in 1 .. Len(s) : s[i].msg = v
      /\ \A p \in Piece : playerConns[p] # Nil =>
            \E i \in 1 .. Len(s) : s[i] = [to |-> playerConns[p], msg |-> v]
  BY <1>2, <1>3, BroadcastIs DEF Base
<1>5. toClient' = toClient /\ Owes(c, s)
  BY <1>2, <1>3 DEF PlayMove
<1>6. m \in Mail(x)' <=> m \in Mail(x) \/ Among(s, x, m)
  BY <1>4, <1>5, MailOwes
<1>7. Among(s, x, m) => m = v
  BY <1>4 DEF Among
<1>8. x # Nil
  BY GameAssumption
<1>9. (\E p \in Piece : playerConns[p] = x) /\ m = v => Among(s, x, m)
  BY <1>4, <1>8 DEF Among
<1> QED
  BY <1>1, <1>6, <1>7, <1>9

\* Mail does not depend on anything else.
LEMMA MailSame ==
    ASSUME owed' = owed, toClient' = toClient, NEW x
    PROVE  Mail(x)' = Mail(x)
  BY DEF Mail, Owing, Coming

\* The mail of a client after a step of its own.
LEMMA MailReader ==
    ASSUME Base, NEW c \in Client, Reader(c), NEW x \in Client, NEW m \in Told
    PROVE  /\ m \in Mail(x)' => m \in Mail(x)
           /\ m \in Mail(x) => m \in Mail(x)' \/ x = c
<1>1. owed' = owed /\ (Leave(c) \/ (Taken(c) /\ \E t : Gets(c, t)))
  BY DEF Reader, HandleAckConnect, HandleNotifyStart, HandleResult
<1>2. CASE Leave(c)
  BY <1>1, <1>2, MailLeave
<1>3. CASE Taken(c) /\ \E t : Gets(c, t)
  BY <1>1, <1>3, MailTaken
<1> QED
  BY <1>1, <1>2, <1>3

\* A client that ends.
LEMMA MailEnds ==
    ASSUME Base, NEW c \in Client, CloseAfterInput(c) \/ Interrupt(c), NEW x \in Client, NEW m \in Told
    PROVE  /\ m \in Mail(x)' => m \in Mail(x)
           /\ m \in Mail(x) => m \in Mail(x)' \/ x = c
<1>1. owed' = owed /\ Leave(c)
  BY DEF CloseAfterInput, Interrupt
<1> QED
  BY <1>1, MailLeave

-----------------------------------------------------------------------------
(* The end of the game *)

\* What the news of the end say is so.
EndOK(m) ==
    /\ m.type = "sc_notify_win" =>
         /\ gameOver /\ m.board = String(board)
         /\ HasLine(board, pieceToPlayer(m.winner))
         /\ ~HasLine(board, pieceToPlayer(Other(m.winner)))
    /\ m.type = "sc_ack_move" /\ m.status = "DRAW" =>
         /\ gameOver /\ m.board = String(board)
         /\ Pieces(board, Empty) = 0
         /\ ~HasLine(board, Player1) /\ ~HasLine(board, Player2)

Announced == \A x \in Client : \A m \in Mail(x) : EndOK(m)

\* The verdict of a move says what the board shows.
LEMMA VerdictIs ==
    ASSUME Base, Match, NEW c \in Client, PlayMove(c), NEW m, m = Verdict(currentTurn)
    PROVE  EndOK(m)'
<1>1. /\ Rests(board')
      /\ CheckWin(board') => HasLine(board', pieceToPlayer(currentTurn))
      /\ ~CheckWin(board') => ~HasLine(board', pieceToPlayer(currentTurn))
      /\ ~HasLine(board', pieceToPlayer(Other(currentTurn)))
      /\ IsFull(board') => Pieces(board', Empty) = 0
  BY PlayLines DEF Match
<1>2. currentTurn \in Piece /\ gameOver' = (CheckWin(board') \/ IsFull(board'))
  BY PlayIs
<1>3. \A x \in {Player1, Player2} : x = pieceToPlayer(currentTurn) \/ x = pieceToPlayer(Other(currentTurn))
  BY <1>2 DEF Piece, pieceToPlayer, Other
<1>4. PICK p, n, g : p = currentTurn /\ n = board' /\ g = String(n)
  OBVIOUS
<1>5. CASE CheckWin(n)
  <2>1. m = NotifyWin(p, g)
    BY <1>4, <1>5 DEF Verdict
  <2>2. m.type = "sc_notify_win" /\ m.winner = p /\ m.board = g
    BY <2>1 DEF NotifyWin
  <2> QED
    BY <1>1, <1>2, <1>4, <1>5, <2>2 DEF EndOK
<1>6. CASE ~CheckWin(n) /\ IsFull(n)
  <2>1. m = AckMove("DRAW", Nil, g)
    BY <1>4, <1>6 DEF Verdict
  <2>2. m.type = "sc_ack_move" /\ m.board = g
    BY <2>1 DEF AckMove
  <2>3. ~HasLine(n, Player1) /\ ~HasLine(n, Player2)
    BY <1>1, <1>3, <1>4, <1>6
  <2> QED
    BY <1>1, <1>2, <1>4, <1>6, <2>2, <2>3 DEF EndOK
<1>7. CASE ~CheckWin(n) /\ ~IsFull(n)
  <2>1. m = AckMove("OK", currentTurn', g)
    BY <1>4, <1>7 DEF Verdict
  <2>2. m.type = "sc_ack_move" /\ m.status = "OK"
    BY <2>1 DEF AckMove
  <2> QED
    BY <2>2 DEF EndOK
<1> QED
  BY <1>5, <1>6, <1>7

\* News of the end are true, or the message is about something else.
LEMMA AnnouncedStep ==
    ASSUME Base, Match, Announced, [Next]_vars
    PROVE  Announced'
<1>0. ASSUME NEW x \in Client, NEW m \in Mail(x)' PROVE m \in Told
  BY <1>0 DEF Mail
<1>1. ASSUME NEW m, UNCHANGED << board, gameOver >>, EndOK(m) PROVE EndOK(m)'
  BY <1>1 DEF EndOK
<1>2. ASSUME NEW m, m.type \in {"sc_ack_connect", "sc_notify_start", "sc_ack_invalid"}
      PROVE  EndOK(m)'
  BY <1>2 DEF EndOK
<1>3. CASE UNCHANGED vars
  <2>1. UNCHANGED << board, gameOver, owed, toClient >>
    BY <1>3 DEF vars, match, wires
  <2> QED
    BY <1>1, <2>1, MailSame DEF Announced
<1>4. ASSUME NEW c \in Client, RefuseConnect(c) PROVE Announced'
  <2>0. PICK t : t = AckConnect(FALSE)
    OBVIOUS
  <2>1. Aside(c) /\ Owes(c, Send(c, t)) /\ toClient' = toClient
    BY <1>4, <2>0 DEF Aside, RefuseConnect
  <2>2. t \in Told /\ t.type = "sc_ack_connect"
    BY <2>0, ToldIs DEF AckConnect
  <2>3. UNCHANGED << board, gameOver >>
    BY <2>1, AsideIs
  <2>4. ASSUME NEW x \in Client, NEW m \in Mail(x)' PROVE m \in Mail(x) \/ m = t
    BY <1>0, <2>1, <2>2, <2>4, MailRefuse
  <2> QED
    BY <1>1, <1>2, <2>2, <2>3, <2>4 DEF Announced
<1>5. ASSUME NEW c \in Client, RefuseMove(c) PROVE Announced'
  <2>1. PICK r : r = Refusal(c, Head(toServer[c]).column)
    OBVIOUS
  <2>2. Aside(c) /\ Owes(c, Send(c, AckInvalid(r))) /\ toClient' = toClient /\ r \in Reasons
    BY <1>5, <2>1, RefusalIs DEF Aside, RefuseMove
  <2>3. AckInvalid(r) \in Told /\ AckInvalid(r).type = "sc_ack_invalid"
    BY <2>2, ToldIs DEF AckInvalid
  <2>4. UNCHANGED << board, gameOver >>
    BY <2>2, AsideIs
  <2>5. ASSUME NEW x \in Client, NEW m \in Mail(x)' PROVE m \in Mail(x) \/ m = AckInvalid(r)
    BY <1>0, <2>2, <2>3, <2>5, MailRefuse
  <2> QED
    BY <1>1, <1>2, <2>3, <2>4, <2>5 DEF Announced
<1>6. ASSUME NEW c \in Client, GrantConnect(c) PROVE Announced'
  <2>1. ASSUME NEW x \in Client, NEW m \in Mail(x)'
        PROVE  m \in Mail(x) \/ m.type \in {"sc_ack_connect", "sc_notify_start"}
    BY <1>0, <1>6, <2>1, MailGrant
  <2>2. board # Nil => UNCHANGED << board, gameOver >>
    BY <1>6 DEF GrantConnect
  <2>3. ASSUME NEW m, EndOK(m), board = Nil PROVE EndOK(m)'
    BY <2>3 DEF EndOK, Match, Sound
  <2> QED
    BY <1>1, <1>2, <2>1, <2>2, <2>3 DEF Announced
<1>7. ASSUME NEW c \in Client, PlayMove(c) PROVE Announced'
  <2>1. ~gameOver
    BY <1>7, PlayIs
  <2>2. ASSUME NEW m, EndOK(m) PROVE EndOK(m)'
    BY <2>1, <2>2 DEF EndOK
  <2>3. ASSUME NEW x \in Client, NEW m \in Mail(x)' PROVE m \in Mail(x) \/ m = Verdict(currentTurn)
    BY <1>0, <1>7, <2>3, MailPlay
  <2> QED
    BY <1>7, <2>2, <2>3, VerdictIs DEF Announced
<1>8. ASSUME NEW c \in Client, MakeSend(c) PROVE Announced'
  <2>1. Aside(c)
    BY <1>8 DEF Aside
  <2>2. ASSUME NEW x \in Client, NEW m \in Mail(x)' PROVE m \in Mail(x)
    BY <1>0, <1>8, <2>2, MailSend
  <2> QED
    BY <1>1, <2>1, <2>2, AsideIs DEF Announced
<1>9. ASSUME NEW c \in Client, Hangup(c) \/ Dial(c) \/ \E msg \in Lines[c] : Type(c, msg)
      PROVE  Announced'
  <2>1. Aside(c) /\ owed' = owed /\ toClient' = toClient
    BY <1>9 DEF Aside, Hangup, Dial, Type
  <2> QED
    BY <1>1, <2>1, AsideIs, MailSame DEF Announced
<1>10. ASSUME NEW c \in Client, Reader(c) PROVE Announced'
  <2>1. Aside(c)
    BY <1>10 DEF Aside
  <2>2. ASSUME NEW x \in Client, NEW m \in Mail(x)' PROVE m \in Mail(x)
    BY <1>0, <1>10, <2>2, MailReader
  <2> QED
    BY <1>1, <2>1, <2>2, AsideIs DEF Announced
<1>11. ASSUME NEW c \in Client, CloseAfterInput(c) \/ Interrupt(c) PROVE Announced'
  <2>1. Aside(c)
    BY <1>11 DEF Aside
  <2>2. ASSUME NEW x \in Client, NEW m \in Mail(x)' PROVE m \in Mail(x)
    BY <1>0, <1>11, <2>2, MailEnds
  <2> QED
    BY <1>1, <2>1, <2>2, AsideIs DEF Announced
<1> QED
  BY <1>3, <1>4, <1>5, <1>6, <1>7, <1>8, <1>9, <1>10, <1>11 DEF Next, Goroutine

\* As long as the news of a win or a draw is under way, it is the truth about
\* the board, which no later move has changed.
THEOREM EndsAreFinal == Spec => []EndIsFinal
<1>1. Init => Match /\ Announced
  <2> SUFFICES ASSUME Init PROVE Match /\ Announced
    OBVIOUS
  <2>1. Match
    BY DEF Init, Match, TurnsAlternate, Sound
  <2>2. ASSUME NEW x \in Client, NEW m \in Mail(x) PROVE FALSE
    BY <2>2 DEF Init, Mail, Owing, Coming
  <2> QED
    BY <2>1, <2>2 DEF Announced
<1>2. Base /\ Announced => EndIsFinal
  BY FlightIsMail DEF Announced, EndIsFinal, EndOK
<1> QED
  BY <1>1, <1>2, BaseInit, BaseStep, MatchStep, AnnouncedStep, PTL DEF Spec

-----------------------------------------------------------------------------
(* Nobody waits *)

\* The messages that make a client take its opening move as answered, or send it.
Answering == {"sc_ack_connect", "sc_ack_move", "sc_notify_win", "sc_ack_invalid"}

Refused == AckConnect(FALSE)

\* A client whose opening move is not answered has something coming.
OpeningGoesOn(x) ==
    link[x] = "open" =>
      firstMoveAcked[x] \/ toServer[x] # << >> \/ \E m \in Mail(x) : m.type \in Answering

\* So has a client that is still there when the game is over, and it is news
\* that ends the client or the answer to its connect.
EndComes(x) ==
    link[x] = "open" /\ gameOver =>
      toServer[x] # << >> \/ \E m \in Mail(x) : m.type = "sc_ack_connect" \/ Final(m)

\* A client that is not registered has its connect ahead of it, or the refusal.
ConnectGoesOn(x) ==
    link[x] = "open" /\ playerRegistry[x] = Nil =>
      \/ Refused \in Mail(x)
      \/ toServer[x] # << >> /\ Head(toServer[x]).type = "cs_send_connect"

AttendedTo(x) == OpeningGoesOn(x) /\ EndComes(x) /\ ConnectGoesOn(x)

Attended == \A x \in Client : AttendedTo(x)

\* A client that nothing is taken from.
LEMMA AttendedKeeps ==
    ASSUME NEW x \in Client, AttendedTo(x), link'[x] = link[x], firstMoveAcked'[x] = firstMoveAcked[x],
           toServer'[x] = toServer[x], gameOver' = gameOver,
           playerRegistry'[x] = Nil => playerRegistry[x] = Nil,
           link[x] = "open" => \A m \in Told : m \in Mail(x) => m \in Mail(x)'
    PROVE  AttendedTo(x)'
<1>1. link[x] = "open" => \A m \in Mail(x) : m \in Mail(x)'
  BY DEF Mail
<1>2. OpeningGoesOn(x)'
  BY <1>1 DEF AttendedTo, OpeningGoesOn
<1>3. EndComes(x)'
  <2> SUFFICES ASSUME link[x] = "open", gameOver, toServer[x] = << >>
               PROVE  \E m \in Mail(x)' : m.type = "sc_ack_connect" \/ Final(m)
    BY DEF EndComes
  <2>1. PICK m \in Mail(x) : m.type = "sc_ack_connect" \/ Final(m)
    BY DEF AttendedTo, EndComes
  <2> QED
    BY <1>1, <2>1
<1>4. ConnectGoesOn(x)'
  <2>1. PICK r : r = Refused
    OBVIOUS
  <2>2. Refused' = r
    BY <2>1 DEF Refused, AckConnect
  <2> QED
    BY <1>1, <2>1, <2>2 DEF AttendedTo, ConnectGoesOn
<1> QED
  BY <1>2, <1>3, <1>4 DEF AttendedTo

\* A client that is not there needs nothing.
LEMMA AttendedAway ==
    ASSUME NEW x \in Client, link'[x] # "open"
    PROVE  AttendedTo(x)'
  BY DEF AttendedTo, OpeningGoesOn, EndComes, ConnectGoesOn

\* A refused connect.
LEMMA AttendedRefuseConnect ==
    ASSUME Base, Attended, NEW c \in Client, RefuseConnect(c)
    PROVE  Attended'
<1>1. PICK t : t = Refused
  OBVIOUS
<1>2. t \in Told /\ t.type = "sc_ack_connect" /\ Refused' = t
  BY <1>1, ToldIs DEF Refused, AckConnect
<1>3. /\ Owes(c, Send(c, t)) /\ Reads(c, "cs_send_connect") /\ Consume(c)
      /\ UNCHANGED << gameOver, playerRegistry, link, toClient, firstMoveAcked >>
  BY <1>1 DEF RefuseConnect, Refused, seats, match
<1>4. \A x \in Client, m \in Told : m \in Mail(x)' <=> m \in Mail(x) \/ (x = c /\ m = t)
  BY <1>2, <1>3, MailRefuse
<1>5. \A d \in Client : d # c => toServer'[d] = toServer[d]
  BY <1>3, ReadsIs DEF Base, Wired
<1>6. ASSUME NEW x \in Client, x # c PROVE AttendedTo(x)'
  BY <1>3, <1>4, <1>5, <1>6, AttendedKeeps DEF Attended
<1>7. t \in Mail(c)'
  BY <1>2, <1>4
<1>8. AttendedTo(c)'
  BY <1>2, <1>7 DEF AttendedTo, OpeningGoesOn, EndComes, ConnectGoesOn, Answering
<1> QED
  BY <1>6, <1>8 DEF Attended

\* A granted connect.
LEMMA AttendedGrantConnect ==
    ASSUME Base, Attended, NEW c \in Client, GrantConnect(c)
    PROVE  Attended'
<1>1. PICK t : t = AckConnect(TRUE)
  OBVIOUS
<1>2. t \in Told /\ t.type = "sc_ack_connect"
  BY <1>1, ToldIs DEF AckConnect
<1>3. /\ Reads(c, "cs_send_connect") /\ Consume(c)
      /\ UNCHANGED << gameOver, link, toClient, firstMoveAcked >>
  BY DEF GrantConnect
<1>4. ASSUME NEW x \in Client, NEW m \in Told, m \in Mail(x) PROVE m \in Mail(x)'
  BY <1>4, MailGrant
<1>5. \A d \in Client : d # c => toServer'[d] = toServer[d]
  BY <1>3, ReadsIs DEF Base, Wired
<1>6. PICK p \in Piece : playerRegistry' = [playerRegistry EXCEPT ![c] = p]
  BY GrantIs
<1>7. playerRegistry'[c] # Nil /\ \A d \in Client : d # c => playerRegistry'[d] = playerRegistry[d]
  BY <1>6, GameAssumption DEF Base, TypeOK
<1>8. ASSUME NEW x \in Client, x # c PROVE AttendedTo(x)'
  BY <1>3, <1>4, <1>5, <1>7, <1>8, AttendedKeeps DEF Attended
<1>9. t \in Mail(c)'
  BY <1>1, <1>2, MailGrant
<1>10. AttendedTo(c)'
  BY <1>2, <1>7, <1>9 DEF AttendedTo, OpeningGoesOn, EndComes, ConnectGoesOn, Answering
<1> QED
  BY <1>8, <1>10 DEF Attended

\* A refused move.
LEMMA AttendedRefuseMove ==
    ASSUME Base, Attended, NEW c \in Client, RefuseMove(c)
    PROVE  Attended'
<1>1. PICK r : r = Refusal(c, Head(toServer[c]).column)
  OBVIOUS
<1>2. /\ Owes(c, Send(c, AckInvalid(r))) /\ Reads(c, "cs_send_move") /\ Consume(c)
      /\ UNCHANGED << gameOver, playerRegistry, link, toClient, firstMoveAcked >> /\ r \in Reasons
  BY <1>1, RefusalIs DEF RefuseMove, seats, match
<1>3. PICK t : t = AckInvalid(r)
  OBVIOUS
<1>4. t \in Told /\ t.type = "sc_ack_invalid" /\ t.reason = r
  BY <1>2, <1>3, ToldIs DEF AckInvalid
<1>5. \A x \in Client, m \in Told : m \in Mail(x)' <=> m \in Mail(x) \/ (x = c /\ m = t)
  BY <1>2, <1>3, <1>4, MailRefuse
<1>6. /\ \A d \in Client : d # c => toServer'[d] = toServer[d]
      /\ Head(toServer[c]).type = "cs_send_move"
  BY <1>2, ReadsIs DEF Base, Wired
<1>7. ASSUME NEW x \in Client, x # c PROVE AttendedTo(x)'
  BY <1>2, <1>5, <1>6, <1>7, AttendedKeeps DEF Attended
<1>8. t \in Mail(c)'
  BY <1>4, <1>5
<1>9. PICK f : f = Refused
  OBVIOUS
<1>10. f \in Told /\ f.type = "sc_ack_connect" /\ Refused' = f
  BY <1>9, ToldIs DEF Refused, AckConnect
<1>11. link[c] = "open" /\ playerRegistry[c] = Nil => f \in Mail(c)'
  BY <1>5, <1>6, <1>9, <1>10 DEF Attended, AttendedTo, ConnectGoesOn
<1>12. playerRegistry[c] # Nil /\ gameOver => Final(t)
  BY <1>1, <1>4 DEF Refusal, Final
<1>13. OpeningGoesOn(c)'
  BY <1>4, <1>8 DEF OpeningGoesOn, Answering
<1>14. EndComes(c)'
  <2> SUFFICES ASSUME link[c] = "open", gameOver
               PROVE  \E m \in Mail(c)' : m.type = "sc_ack_connect" \/ Final(m)
    BY <1>2 DEF EndComes
  <2> QED
    BY <1>8, <1>10, <1>11, <1>12
<1>15. ConnectGoesOn(c)'
  BY <1>2, <1>10, <1>11 DEF ConnectGoesOn
<1> QED
  BY <1>7, <1>13, <1>14, <1>15 DEF Attended, AttendedTo

\* A move that is played.
LEMMA AttendedPlayMove ==
    ASSUME Base, Attended, NEW c \in Client, PlayMove(c)
    PROVE  Attended'
<1>1. PICK v : v = Verdict(currentTurn)
  OBVIOUS
<1>2. /\ playerRegistry[c] \in Piece /\ playerRegistry[c] = currentTurn /\ playerConns[playerRegistry[c]] = c
      /\ gameOver' = (CheckWin(board') \/ IsFull(board'))
      /\ v \in Told /\ ~gameOver /\ playerRegistry' = playerRegistry
  BY <1>1, PlayIs DEF seats
<1>3. /\ Reads(c, "cs_send_move") /\ Consume(c)
      /\ UNCHANGED << link, firstMoveAcked >>
  BY DEF PlayMove
<1>4. \A x \in Client, m \in Told :
         /\ m \in Mail(x) => m \in Mail(x)'
         /\ (\E p \in Piece : playerConns[p] = x) /\ m = v => m \in Mail(x)'
  BY <1>1, MailPlay
<1>5. \A d \in Client : d # c => toServer'[d] = toServer[d]
  BY <1>3, ReadsIs DEF Base, Wired
<1>6. v.type \in Answering
  BY <1>1 DEF Verdict, NotifyWin, AckMove, Answering
<1>7. gameOver' => Final(v)
  BY <1>1, <1>2 DEF Verdict, NotifyWin, AckMove, Final
<1>8. PICK f : f = Refused
  OBVIOUS
<1>9. f \in Told /\ f.type = "sc_ack_connect" /\ Refused' = f
  BY <1>8, ToldIs DEF Refused, AckConnect
<1>10. \A x \in Client : \A m \in Mail(x) : m \in Mail(x)'
  BY <1>4 DEF Mail
<1>11. playerRegistry[c] # Nil
  BY <1>2, GameAssumption
<1>12. ASSUME NEW x \in Client PROVE OpeningGoesOn(x)'
  <2>1. CASE x = c
    BY <1>2, <1>4, <1>6, <2>1 DEF OpeningGoesOn
  <2>2. CASE x # c
    <3>1. OpeningGoesOn(x) /\ toServer'[x] = toServer[x]
      BY <1>5, <2>2 DEF Attended, AttendedTo
    <3> QED
      BY <1>3, <1>10, <3>1 DEF OpeningGoesOn
  <2> QED
    BY <2>1, <2>2
<1>13. ASSUME NEW x \in Client PROVE ConnectGoesOn(x)'
  <2>1. CASE x = c
    BY <1>2, <1>11, <2>1 DEF ConnectGoesOn
  <2>2. CASE x # c
    <3>1. ConnectGoesOn(x) /\ toServer'[x] = toServer[x]
      BY <1>5, <2>2 DEF Attended, AttendedTo
    <3> QED
      BY <1>2, <1>3, <1>8, <1>9, <1>10, <3>1 DEF ConnectGoesOn
  <2> QED
    BY <2>1, <2>2
<1>14. ASSUME NEW x \in Client PROVE EndComes(x)'
  <2> SUFFICES ASSUME link[x] = "open", gameOver', toServer'[x] = << >>
               PROVE  \E m \in Mail(x)' : m.type = "sc_ack_connect" \/ Final(m)
    BY <1>3 DEF EndComes
  <2>1. CASE playerRegistry[x] # Nil
    <3>1. playerRegistry[x] \in Piece /\ playerConns[playerRegistry[x]] = x
      BY <2>1 DEF Base, TypeOK, SeatsAgree
    <3> QED
      BY <1>2, <1>4, <1>7, <3>1
  <2>2. CASE playerRegistry[x] = Nil
    <3>1. f \in Mail(x)'
      BY <1>2, <1>3, <1>9, <1>13, <2>2 DEF ConnectGoesOn
    <3> QED
      BY <1>9, <3>1
  <2> QED
    BY <2>1, <2>2
<1> QED
  BY <1>12, <1>13, <1>14 DEF Attended, AttendedTo

\* The steps of a client, as they are seen by the others.
LEMMA AttendedOthers ==
    ASSUME Base, Attended, NEW c \in Client, NEW x \in Client, x # c,
           \/ Dial(c) \/ Reader(c) \/ CloseAfterInput(c) \/ Interrupt(c)
           \/ \E msg \in Lines[c] : Type(c, msg)
    PROVE  AttendedTo(x)'
<1>1. gameOver' = gameOver /\ playerRegistry' = playerRegistry /\ owed' = owed
  BY DEF Dial, Reader, HandleAckConnect, HandleNotifyStart, HandleResult, CloseAfterInput, Interrupt,
     Type, seats, match
<1>2. /\ link \in [Client -> {"none", "open", "closed", "gone"}]
      /\ firstMoveAcked \in [Client -> BOOLEAN] /\ toServer \in [Client -> Seq(Sent)]
  BY DEF Base, TypeOK, Wired
<1>3. link' = link \/ \E v : link' = [link EXCEPT ![c] = v]
  BY DEF Dial, Reader, HandleAckConnect, HandleNotifyStart, HandleResult, CloseAfterInput, Interrupt,
     Type, Leave
<1>4. firstMoveAcked' = firstMoveAcked \/ \E v : firstMoveAcked' = [firstMoveAcked EXCEPT ![c] = v]
  BY DEF Dial, Reader, HandleAckConnect, HandleNotifyStart, HandleResult, CloseAfterInput, Interrupt,
     Type, Leave, signalFirstMoveAcked
<1>5. toServer' = toServer \/ \E v : toServer' = [toServer EXCEPT ![c] = v]
  BY DEF Dial, Reader, HandleAckConnect, HandleNotifyStart, HandleResult, CloseAfterInput, Interrupt,
     Type
<1>6. link'[x] = link[x] /\ firstMoveAcked'[x] = firstMoveAcked[x] /\ toServer'[x] = toServer[x]
  BY <1>2, <1>3, <1>4, <1>5
<1>7. ASSUME NEW m \in Told, m \in Mail(x) PROVE m \in Mail(x)'
  <2>1. CASE Reader(c)
    BY <1>7, <2>1, MailReader
  <2>2. CASE CloseAfterInput(c) \/ Interrupt(c)
    BY <1>7, <2>2, MailEnds
  <2>3. CASE Dial(c) \/ \E msg \in Lines[c] : Type(c, msg)
    <3>1. toClient' = toClient
      BY <2>3 DEF Dial, Type
    <3> QED
      BY <1>1, <1>7, <3>1, MailSame
  <2> QED
    BY <2>1, <2>2, <2>3
<1> QED
  BY <1>1, <1>6, <1>7, AttendedKeeps DEF Attended

\* A client that dials or types.
LEMMA AttendedSends ==
    ASSUME Base, Attended, NEW c \in Client, Dial(c) \/ \E msg \in Lines[c] : Type(c, msg)
    PROVE  AttendedTo(c)'
<1>1. toServer \in [Client -> Seq(Sent)]
  BY DEF Base, Wired
<1>2. CASE Dial(c)
  <2>1. PICK m : m = SendConnect(Wants[c])
    OBVIOUS
  <2>2. toServer'[c] = << m >> /\ m.type = "cs_send_connect"
    BY <1>1, <1>2, <2>1 DEF Dial, SendConnect
  <2>3. toServer'[c] # << >> /\ Head(toServer'[c]).type = "cs_send_connect"
    BY <2>2
  <2> QED
    BY <2>3 DEF AttendedTo, OpeningGoesOn, EndComes, ConnectGoesOn
<1>3. CASE \E msg \in Lines[c] : Type(c, msg)
  <2>1. PICK msg \in Lines[c] : Type(c, msg)
    BY <1>3
  <2>2. PICK q : q = toServer[c]
    OBVIOUS
  <2>3. q \in Seq(Sent) /\ msg \in Sent /\ toServer'[c] = Append(q, msg)
    BY <1>1, <2>1, <2>2 DEF Type, Sent
  <2>4. Append(q, msg) # << >> /\ (q # << >> => Head(Append(q, msg)) = Head(q))
    BY <2>3
  <2>5. owed' = owed /\ toClient' = toClient /\ playerRegistry' = playerRegistry /\ link' = link
    BY <2>1 DEF Type, seats
  <2>6. Mail(c)' = Mail(c)
    BY <2>5, MailSame
  <2>7. PICK f : f = Refused
    OBVIOUS
  <2>8. Refused' = f
    BY <2>7 DEF Refused, AckConnect
  <2>9. ConnectGoesOn(c)
    BY DEF Attended, AttendedTo
  <2>10. ConnectGoesOn(c)'
    BY <2>2, <2>3, <2>4, <2>5, <2>6, <2>7, <2>8, <2>9 DEF ConnectGoesOn
  <2> QED
    BY <2>3, <2>4, <2>10 DEF AttendedTo, OpeningGoesOn, EndComes
<1> QED
  BY <1>2, <1>3

\* A client that reads.
LEMMA AttendedReads ==
    ASSUME Base, Attended, NEW c \in Client, Reader(c)
    PROVE  AttendedTo(c)'
<1>1. PICK h : h = Head(toClient[c])
  OBVIOUS
<1>2. PICK f : f = Refused
  OBVIOUS
<1>3. /\ f \in Told /\ f.type = "sc_ack_connect" /\ f.success = FALSE /\ Refused' = f
  BY <1>2, ToldIs DEF Refused, AckConnect
<1>4. CASE Leave(c)
  <2>1. link'[c] # "open"
    BY <1>4, LeaveIs
  <2> QED
    BY <2>1, AttendedAway
<1>5. AttendedTo(c)
  BY DEF Attended
<1>6. gameOver' = gameOver /\ playerRegistry' = playerRegistry /\ owed' = owed
  BY DEF Reader, HandleAckConnect, HandleNotifyStart, HandleResult, seats, match
<1>7. CASE ~Leave(c)
  <2>1. Taken(c) /\ link' = link /\ \E t : Gets(c, t)
    BY <1>7 DEF Reader, HandleAckConnect, HandleNotifyStart, HandleResult
  <2>2. ASSUME NEW m \in Mail(c), m # h PROVE m \in Mail(c)'
    <3>1. m \in Told
      BY <2>2 DEF Mail
    <3> QED
      BY <1>1, <1>6, <2>1, <2>2, <3>1, MailTaken
  <2>3. CASE HandleAckConnect(c)
    <3>1. h.success /\ h # f
      BY <1>1, <1>3, <1>7, <2>3 DEF HandleAckConnect
    <3>2. PICK q, msg : q = toServer[c] /\ msg = SendMove(initialCol[c])
      OBVIOUS
    <3>3. q \in Seq(Sent) /\ msg \in Sent /\ toServer'[c] = Append(q, msg)
      BY <1>1, <2>3, <3>1, <3>2, GameAssumption DEF HandleAckConnect, Base, Wired, Sent
    <3>4. Append(q, msg) # << >> /\ (q # << >> => Head(Append(q, msg)) = Head(q))
      BY <3>3
    <3>5. ConnectGoesOn(c)'
      BY <1>2, <1>3, <1>5, <1>6, <2>1, <2>2, <3>1, <3>2, <3>3, <3>4 DEF AttendedTo, ConnectGoesOn
    <3> QED
      BY <3>3, <3>4, <3>5 DEF AttendedTo, OpeningGoesOn, EndComes
  <2>4. CASE HandleNotifyStart(c)
    <3>1. h.type = "sc_notify_start" /\ h # f /\ UNCHANGED << toServer, firstMoveAcked >>
      BY <1>1, <1>3, <2>4 DEF HandleNotifyStart, Gets
    <3>2. OpeningGoesOn(c)'
      BY <1>5, <2>1, <2>2, <3>1 DEF AttendedTo, OpeningGoesOn, Answering
    <3>3. ~Final(h)
      BY <3>1 DEF Final
    <3>4. EndComes(c)'
      <4> SUFFICES ASSUME link[c] = "open", gameOver, toServer[c] = << >>
                   PROVE  \E m \in Mail(c)' : m.type = "sc_ack_connect" \/ Final(m)
        BY <1>6, <2>1, <3>1 DEF EndComes
      <4>1. PICK m \in Mail(c) : m.type = "sc_ack_connect" \/ Final(m)
        BY <1>5 DEF AttendedTo, EndComes
      <4> QED
        BY <2>2, <3>1, <3>3, <4>1
    <3>5. ConnectGoesOn(c)'
      BY <1>2, <1>3, <1>5, <1>6, <2>1, <2>2, <3>1 DEF AttendedTo, ConnectGoesOn
    <3> QED
      BY <3>2, <3>4, <3>5 DEF AttendedTo
  <2>5. CASE HandleResult(c)
    <3>1. /\ h.type \in {"sc_ack_move", "sc_notify_win", "sc_ack_invalid", "sc_notify_error"} /\ h # f
          /\ ~Final(h) /\ signalFirstMoveAcked(c) /\ toServer' = toServer
      BY <1>1, <1>3, <1>7, <2>5 DEF HandleResult, Gets
    <3>2. firstMoveAcked'[c]
      BY <3>1 DEF signalFirstMoveAcked, Base, TypeOK
    <3>3. OpeningGoesOn(c)'
      BY <3>2 DEF OpeningGoesOn
    <3>4. EndComes(c)'
      <4> SUFFICES ASSUME link[c] = "open", gameOver, toServer[c] = << >>
                   PROVE  \E m \in Mail(c)' : m.type = "sc_ack_connect" \/ Final(m)
        BY <1>6, <2>1, <3>1 DEF EndComes
      <4>1. PICK m \in Mail(c) : m.type = "sc_ack_connect" \/ Final(m)
        BY <1>5 DEF AttendedTo, EndComes
      <4> QED
        BY <2>2, <3>1, <4>1
    <3>5. ConnectGoesOn(c)'
      BY <1>2, <1>3, <1>5, <1>6, <2>1, <2>2, <3>1 DEF AttendedTo, ConnectGoesOn
    <3> QED
      BY <3>3, <3>4, <3>5 DEF AttendedTo
  <2> QED
    BY <2>3, <2>4, <2>5 DEF Reader
<1> QED
  BY <1>4, <1>7

\* Attended is inductive.
LEMMA AttendedStep ==
    ASSUME Base, Attended, [Next]_vars
    PROVE  Attended'
<1>1. CASE UNCHANGED vars
  <2>1. UNCHANGED << gameOver, playerRegistry, owed, toClient, link, toServer, firstMoveAcked >>
    BY <1>1 DEF vars, match, wires, seats
  <2>2. ASSUME NEW x \in Client PROVE AttendedTo(x)'
    BY <2>1, MailSame, AttendedKeeps DEF Attended
  <2> QED
    BY <2>2 DEF Attended
<1>2. ASSUME NEW c \in Client, MakeSend(c) PROVE Attended'
  <2>1. UNCHANGED << gameOver, playerRegistry, link, toServer, firstMoveAcked >>
    BY <1>2 DEF MakeSend, seats, match
  <2>2. ASSUME NEW x \in Client PROVE AttendedTo(x)'
    BY <1>2, <2>1, MailSend, AttendedKeeps DEF Attended
  <2> QED
    BY <2>2 DEF Attended
<1>3. ASSUME NEW c \in Client, Hangup(c) PROVE Attended'
  <2>1. /\ UNCHANGED << gameOver, owed, toClient, toServer, firstMoveAcked >>
        /\ link' = [link EXCEPT ![c] = "gone"]
    BY <1>3 DEF Hangup, match
  <2>2. link'[c] # "open" /\ \A d \in Client : d # c => link'[d] = link[d]
    BY <2>1 DEF Base, TypeOK
  <2>3. \A d \in Client : d # c => playerRegistry'[d] = playerRegistry[d]
    <3>1. CASE Release(c)
      BY <3>1, ReleaseIs
    <3>2. CASE UNCHANGED seats
      BY <3>2 DEF seats
    <3> QED
      BY <1>3, <3>1, <3>2 DEF Hangup
  <2>4. ASSUME NEW x \in Client PROVE AttendedTo(x)'
    <3>1. CASE x = c
      BY <2>2, <3>1, AttendedAway
    <3>2. CASE x # c
      BY <2>1, <2>2, <2>3, <3>2, MailSame, AttendedKeeps DEF Attended
    <3> QED
      BY <3>1, <3>2
  <2> QED
    BY <2>4 DEF Attended
<1>4. ASSUME NEW c \in Client,
             \/ Dial(c) \/ Reader(c) \/ CloseAfterInput(c) \/ Interrupt(c)
             \/ \E msg \in Lines[c] : Type(c, msg)
      PROVE  Attended'
  <2>1. AttendedTo(c)'
    <3>1. CASE CloseAfterInput(c) \/ Interrupt(c)
      <4>1. Leave(c)
        BY <3>1 DEF CloseAfterInput, Interrupt
      <4> QED
        BY <4>1, LeaveIs, AttendedAway
    <3> QED
      BY <1>4, <3>1, AttendedSends, AttendedReads
  <2> QED
    BY <1>4, <2>1, AttendedOthers DEF Attended
<1> QED
  BY <1>1, <1>2, <1>3, <1>4, AttendedRefuseConnect, AttendedGrantConnect, AttendedRefuseMove,
     AttendedPlayMove DEF Next, Goroutine

\* When all that was sent has been dealt with, every client that is still there
\* has had its opening move answered, and there is none if the game is over.
THEOREM NobodyIsLeftWaiting == Spec => []NobodyWaits
<1>1. Init => Attended
  BY DEF Init, Attended, AttendedTo, OpeningGoesOn, EndComes, ConnectGoesOn
<1>2. Attended => NobodyWaits
  <2> SUFFICES ASSUME Attended, Quiet, NEW c \in Client, link[c] = "open"
               PROVE  firstMoveAcked[c] /\ ~gameOver
    BY DEF NobodyWaits
  <2>1. \A d \in Client : owed[d] = << >> /\ toServer[d] = << >> /\ toClient[d] = << >>
    BY DEF Quiet
  <2>2. ASSUME NEW m \in Mail(c) PROVE FALSE
    BY <2>1, <2>2 DEF Mail, Owing, Coming
  <2>3. OpeningGoesOn(c) /\ EndComes(c)
    BY DEF Attended, AttendedTo
  <2> QED
    BY <2>1, <2>2, <2>3 DEF OpeningGoesOn, EndComes
<1> QED
  BY <1>1, <1>2, BaseInit, BaseStep, AttendedStep, PTL DEF Spec

-----------------------------------------------------------------------------
(* Late pictures *)

\* The marks of a picture of this server's boards.
MarksOf(picture) ==
    Cardinality({x \in (0 .. boardRows - 1) \X (0 .. boardCols - 1) : picture[x[1]][x[2]] # "."})

Pictured(m) == m.type \in {"sc_notify_start", "sc_ack_move", "sc_notify_win"}

\* The picture is that of the board, or of the board before the last move, and
\* then the move that comes next is one its sender would have to read.
Recent(c, m) ==
    /\ board # Nil /\ playerRegistry[c] \in Piece
    /\ \/ MarksOf(m.board) = MarksOf(String(board))
       \/ /\ MarksOf(m.board) + 1 = MarksOf(String(board))
          /\ gameOver \/ playerRegistry[c] = currentTurn

Timely(c) == \A i \in 1 .. Len(owed[c]) : Pictured(owed[c][i].msg) => Recent(c, owed[c][i].msg)

AllTimely == \A c \in Client : Timely(c)

\* A move puts one more mark on the picture.
LEMMA MoveMarks ==
    ASSUME NEW b \in Bs, NEW n \in Bs, NEW row, NEW col, NEW player, Drops(b, n, row, col, player)
    PROVE  MarksOf(String(b)) \in Nat /\ MarksOf(String(n)) = MarksOf(String(b)) + 1
<1> DEFINE K == (0 .. boardRows - 1) \X (0 .. boardCols - 1)
           S == {x \in K : String(b)[x[1]][x[2]] # "."}
           T == {x \in K : String(n)[x[1]][x[2]] # "."}
<1>0. boardRows \in Nat /\ boardCols \in Nat /\ boardM \in Nat
  BY GameAssumption
<1>1. /\ b.Rows = boardRows /\ b.Cols = boardCols /\ n.Rows = boardRows /\ n.Cols = boardCols
  BY DEF Bs, Boards
<1>2. ASSUME NEW a \in Bs, NEW r \in 0 .. boardRows - 1, NEW c \in 0 .. boardCols - 1
      PROVE  String(a)[r][c] = "." <=> a.Grid[r][c] = Empty
  <2>1. a.Rows = boardRows /\ a.Cols = boardCols
    BY DEF Bs, Boards
  <2>2. a.Grid[r][c] \in {Empty, Player1, Player2}
    BY DEF Bs, Boards
  <2>3. String(a)[r][c] = CASE a.Grid[r][c] = Empty -> "."
                            [] a.Grid[r][c] = Player1 -> "X"
                            [] a.Grid[r][c] = Player2 -> "O"
    BY <2>1 DEF String
  <2> QED
    BY <2>2, <2>3 DEF Empty, Player1, Player2
<1>3. /\ row \in 0 .. boardRows - 1 /\ col \in 0 .. boardCols - 1 /\ b.Grid[row][col] = Empty
      /\ player \in {Player1, Player2}
      /\ \A r \in 0 .. boardRows - 1, c \in 0 .. boardCols - 1 :
            n.Grid[r][c] = IF r = row /\ c = col THEN player ELSE b.Grid[r][c]
  BY <1>1 DEF Drops
<1>4. player # Empty
  BY <1>3 DEF Player1, Player2, Empty
<1>5. ASSUME NEW r \in 0 .. boardRows - 1, NEW c \in 0 .. boardCols - 1
      PROVE  String(n)[r][c] # "." <=> String(b)[r][c] # "." \/ (r = row /\ c = col)
  <2>1. n.Grid[r][c] = IF r = row /\ c = col THEN player ELSE b.Grid[r][c]
    BY <1>3
  <2>2. /\ String(n)[r][c] = "." <=> n.Grid[r][c] = Empty
        /\ String(b)[r][c] = "." <=> b.Grid[r][c] = Empty
    BY <1>2
  <2> QED
    BY <1>4, <2>1, <2>2
<1>6. << row, col >> \in K /\ String(b)[row][col] = "."
  BY <1>2, <1>3
<1>7. PICK sb, sn : sb = String(b) /\ sn = String(n)
  OBVIOUS
<1>8. << row, col >> \notin S
  BY <1>6, <1>7
<1>9. ASSUME NEW x \in K
      PROVE  sn[x[1]][x[2]] # "." <=> sb[x[1]][x[2]] # "." \/ x = << row, col >>
  <2>1. PICK r \in 0 .. boardRows - 1, c \in 0 .. boardCols - 1 : x = << r, c >>
    OBVIOUS
  <2>2. sn[r][c] # "." <=> sb[r][c] # "." \/ (r = row /\ c = col)
    BY <1>5, <1>7
  <2>3. x = << row, col >> <=> r = row /\ c = col
    BY <2>1
  <2> QED
    BY <2>1, <2>2, <2>3
<1>10. S = {x \in K : sb[x[1]][x[2]] # "."} /\ T = {x \in K : sn[x[1]][x[2]] # "."}
  BY <1>7
<1>11. T = S \cup {<< row, col >>}
  <2> HIDE DEF K, S, T
  <2> QED
    BY <1>6, <1>9, <1>10
<1>12. IsFiniteSet(K)
  <2>1. IsFiniteSet(0 .. boardRows - 1) /\ IsFiniteSet(0 .. boardCols - 1)
    BY <1>0, FS_Interval
  <2> QED
    BY <2>1, FS_Product
<1>13. S \subseteq K
  OBVIOUS
<1> HIDE DEF K, S, T
<1>14. IsFiniteSet(S) /\ Cardinality(S) \in Nat
  BY <1>12, <1>13, FS_Subset, FS_CardinalityType
<1>15. Cardinality(S \cup {<< row, col >>}) = Cardinality(S) + 1
  BY <1>8, <1>14, FS_AddElement
<1>16. MarksOf(String(b)) = Cardinality(S) /\ MarksOf(String(n)) = Cardinality(T)
  BY DEF MarksOf, S, T, K
<1> QED
  BY <1>11, <1>14, <1>15, <1>16

\* A goroutine whose sends are what they were, or fewer.
LEMMA TimelyKeeps ==
    ASSUME NEW d \in Client, Timely(d),
           UNCHANGED << board, gameOver, currentTurn >>, playerRegistry'[d] = playerRegistry[d],
           \A i \in 1 .. Len(owed'[d]) : \E j \in 1 .. Len(owed[d]) : owed'[d][i] = owed[d][j]
    PROVE  Timely(d)'
<1>1. ASSUME NEW i \in 1 .. Len(owed'[d]), NEW m, m = owed'[d][i].msg, Pictured(m)
      PROVE  Recent(d, m)'
  <2>1. PICK j \in 1 .. Len(owed[d]) : owed'[d][i] = owed[d][j]
    OBVIOUS
  <2>2. Recent(d, m)
    BY <1>1, <2>1 DEF Timely
  <2> QED
    BY <2>2 DEF Recent
<1> QED
  BY <1>1 DEF Timely, Recent, Pictured

\* A goroutine that owes what it has just been given.
LEMMA TimelyNew ==
    ASSUME NEW d \in Client, NEW s \in Seq(Sends), owed'[d] = s,
           \A x \in Client, m \in Told : Among(s, x, m) /\ Pictured(m) => Recent(d, m)'
    PROVE  Timely(d)'
<1>1. ASSUME NEW i \in 1 .. Len(s), NEW m, m = s[i].msg, Pictured(m) PROVE Recent(d, m)'
  <2>1. s[i] \in Sends
    OBVIOUS
  <2>2. s[i].to \in Client /\ m \in Told /\ s[i] = [to |-> s[i].to, msg |-> m]
    BY <1>1, <2>1 DEF Sends
  <2>3. PICK x \in Client : s[i] = [to |-> x, msg |-> m]
    BY <2>2
  <2>4. Among(s, x, m)
    BY <2>3 DEF Among
  <2> QED
    BY <1>1, <2>2, <2>3, <2>4
<1> QED
  BY <1>1 DEF Timely, Recent, Pictured

\* A move that is played.
LEMMA TimelyPlayMove ==
    ASSUME Base, AllTimely, NEW c \in Client, PlayMove(c)
    PROVE  AllTimely'
<1>1. PICK v : v = Verdict(currentTurn)
  OBVIOUS
<1>2. /\ playerRegistry[c] \in Piece /\ playerRegistry[c] = currentTurn /\ playerConns[playerRegistry[c]] = c
      /\ currentTurn' = IF gameOver' THEN currentTurn ELSE Other(currentTurn)
      /\ v \in Told /\ ~gameOver /\ playerRegistry' = playerRegistry
      /\ board \in Bs /\ board' \in Bs /\ Owes(c, Broadcast(v))
  BY <1>1, PlayIs DEF seats
<1>3. board' # Nil
  BY <1>2, GameAssumption DEF Bs
<1>4. MarksOf(String(board)) \in Nat /\ MarksOf(String(board')) = MarksOf(String(board)) + 1
  <2>1. PICK b, n, pl : b = board /\ n = board' /\ pl = pieceToPlayer(currentTurn)
    OBVIOUS
  <2>2. PICK row, col : Drops(b, n, row, col, pl)
    BY <2>1, PlayIs
  <2>3. MarksOf(String(b)) \in Nat /\ MarksOf(String(n)) = MarksOf(String(b)) + 1
    BY <1>2, <2>1, <2>2, MoveMarks
  <2> QED
    BY <2>1, <2>3
<1>5. owed[c] = << >> /\ owed \in [Client -> Seq(Sends)]
  BY DEF PlayMove, Reads, Base, Wired
<1>6. PICK s : s = Broadcast(v)
  OBVIOUS
<1>7. s \in Seq(Sends) /\ \A i \in 1 .. Len(s) : s[i].msg = v
  BY <1>2, <1>6, BroadcastIs DEF Base
<1>8. owed'[c] = s /\ \A d \in Client : d # c => owed'[d] = owed[d]
  <2>1. owed'[c] = owed[c] \o s /\ \A d \in Client : d # c => owed'[d] = owed[d]
    BY <1>2, <1>5, <1>6, <1>7, OwesIs
  <2> QED
    BY <1>5, <1>7, <2>1
<1>9. v.board = String(board')
  BY <1>1 DEF Verdict, NotifyWin, AckMove
<1>10. Recent(c, v)'
  BY <1>2, <1>3, <1>9 DEF Recent
<1>11. Timely(c)'
  <2>1. ASSUME NEW x \in Client, NEW m \in Told, Among(s, x, m) PROVE m = v
    BY <1>7, <2>1 DEF Among
  <2> QED
    BY <1>7, <1>8, <1>10, <2>1, TimelyNew
<1>12. ASSUME NEW d \in Client, d # c PROVE Timely(d)'
  <2>1. ASSUME NEW i \in 1 .. Len(owed[d]), NEW m, m = owed[d][i].msg, Pictured(m)
        PROVE  Recent(d, m)'
    <3>1. Recent(d, m)
      BY <2>1 DEF AllTimely, Timely
    <3>2. playerRegistry[d] \in Piece /\ playerConns[playerRegistry[d]] = d
      BY <3>1, GameAssumption DEF Recent, Base, SeatsAgree
    <3>3. playerRegistry[d] # currentTurn
      BY <1>2, <1>12, <3>2
    <3>4. playerRegistry[d] = Other(currentTurn)
      BY <1>2, <3>2, <3>3, PieceIs
    <3>5. MarksOf(m.board) = MarksOf(String(board))
      BY <1>2, <3>1, <3>3 DEF Recent
    <3>6. MarksOf(m.board) + 1 = MarksOf(String(board'))
      BY <1>4, <3>5
    <3>7. gameOver' \/ playerRegistry'[d] = currentTurn'
      BY <1>2, <3>4
    <3> QED
      BY <1>2, <1>3, <3>2, <3>6, <3>7 DEF Recent
  <2>2. owed'[d] = owed[d]
    BY <1>8, <1>12
  <2> QED
    BY <2>1, <2>2 DEF Timely, Recent, Pictured
<1> QED
  BY <1>11, <1>12 DEF AllTimely

\* A granted connect.
LEMMA TimelyGrantConnect ==
    ASSUME Base, AllTimely, NEW c \in Client, GrantConnect(c)
    PROVE  AllTimely'
<1>1. PICK p \in Piece :
         /\ playerRegistry' = [playerRegistry EXCEPT ![c] = p] /\ board' \in Bs
         /\ board # Nil => UNCHANGED << board, currentTurn >>
  BY GrantIs
<1>2. PICK s \in Seq(Sends) :
              /\ Owes(c, s)
              /\ \A y \in Client, t \in Told : Among(s, y, t) =>
                    \/ t.type = "sc_ack_connect"
                    \/ t.type = "sc_notify_start" /\ t.board = String(board')
  BY GrantSends
<1>3. board' # Nil /\ playerRegistry'[c] = p
      /\ \A d \in Client : d # c => playerRegistry'[d] = playerRegistry[d]
  BY <1>1, GameAssumption DEF Bs, Base, TypeOK
<1>4. owed[c] = << >> /\ owed \in [Client -> Seq(Sends)] /\ gameOver' = gameOver
  BY DEF GrantConnect, Reads, Base, Wired
<1>5. owed'[c] = s /\ \A d \in Client : d # c => owed'[d] = owed[d]
  <2>1. owed'[c] = owed[c] \o s /\ \A d \in Client : d # c => owed'[d] = owed[d]
    BY <1>2, <1>4, OwesIs
  <2> QED
    BY <1>2, <1>4, <2>1
<1>6. Timely(c)'
  <2>1. ASSUME NEW x \in Client, NEW m \in Told, Among(s, x, m), Pictured(m) PROVE Recent(c, m)'
    <3>1. m.board = String(board')
      BY <1>2, <2>1 DEF Pictured
    <3> QED
      BY <1>1, <1>3, <3>1 DEF Recent
  <2> QED
    BY <1>5, <2>1, TimelyNew
<1>7. ASSUME NEW d \in Client, d # c PROVE Timely(d)'
  <2>1. CASE board # Nil
    <3>1. UNCHANGED << board, gameOver, currentTurn >> /\ playerRegistry'[d] = playerRegistry[d]
          /\ owed'[d] = owed[d] /\ Timely(d)
      BY <1>1, <1>3, <1>4, <1>5, <1>7, <2>1 DEF AllTimely
    <3> QED
      BY <3>1, TimelyKeeps
  <2>2. CASE board = Nil
    <3>1. \A i \in 1 .. Len(owed[d]) : ~Pictured(owed[d][i].msg)
      BY <2>2 DEF AllTimely, Timely, Recent
    <3>2. owed'[d] = owed[d]
      BY <1>5, <1>7
    <3> QED
      BY <3>1, <3>2 DEF Timely, Pictured
  <2> QED
    BY <2>1, <2>2
<1> QED
  BY <1>6, <1>7 DEF AllTimely

\* A refusal, of a connect or of a move.
LEMMA TimelyRefuse ==
    ASSUME Base, AllTimely, NEW c \in Client, NEW t \in Told, ~Pictured(t), owed[c] = << >>,
           Owes(c, Send(c, t)), UNCHANGED << board, gameOver, currentTurn, playerRegistry >>
    PROVE  AllTimely'
<1>1. PICK s : s = Send(c, t)
  OBVIOUS
<1>2. s \in Seq(Sends) /\ \A x \in Client, m \in Told : Among(s, x, m) => m = t
  BY <1>1, SendIs, AmongOne
<1>3. owed'[c] = s /\ \A d \in Client : d # c => owed'[d] = owed[d]
  <2>1. owed'[c] = owed[c] \o s /\ \A d \in Client : d # c => owed'[d] = owed[d]
    BY <1>1, <1>2, OwesIs DEF Base, Wired
  <2> QED
    BY <1>2, <2>1
<1>4. Timely(c)'
  BY <1>2, <1>3, TimelyNew
<1>5. ASSUME NEW d \in Client, d # c PROVE Timely(d)'
  BY <1>3, <1>5, TimelyKeeps DEF AllTimely
<1> QED
  BY <1>4, <1>5 DEF AllTimely

\* AllTimely is inductive.
LEMMA TimelyStep ==
    ASSUME Base, AllTimely, [Next]_vars
    PROVE  AllTimely'
<1>1. ASSUME UNCHANGED << board, gameOver, currentTurn, playerRegistry, owed >> PROVE AllTimely'
  BY <1>1, TimelyKeeps DEF AllTimely
<1>2. CASE UNCHANGED vars
  BY <1>1, <1>2 DEF vars, match, seats
<1>3. ASSUME NEW c \in Client, RefuseConnect(c) PROVE AllTimely'
  <2>1. PICK t : t = AckConnect(FALSE)
    OBVIOUS
  <2>2. t \in Told /\ ~Pictured(t)
    BY <2>1, ToldIs DEF AckConnect, Pictured
  <2>3. /\ Owes(c, Send(c, t)) /\ owed[c] = << >>
        /\ UNCHANGED << board, gameOver, currentTurn, playerRegistry >>
    BY <1>3, <2>1 DEF RefuseConnect, Reads, match, seats
  <2> QED
    BY <2>2, <2>3, TimelyRefuse
<1>4. ASSUME NEW c \in Client, RefuseMove(c) PROVE AllTimely'
  <2>1. PICK r, t : r = Refusal(c, Head(toServer[c]).column) /\ t = AckInvalid(r)
    OBVIOUS
  <2>2. r \in Reasons
    BY <1>4, <2>1, RefusalIs DEF RefuseMove
  <2>3. t \in Told /\ ~Pictured(t)
    BY <2>1, <2>2, ToldIs DEF AckInvalid, Pictured
  <2>4. /\ Owes(c, Send(c, t)) /\ owed[c] = << >>
        /\ UNCHANGED << board, gameOver, currentTurn, playerRegistry >>
    BY <1>4, <2>1 DEF RefuseMove, Reads, match, seats
  <2> QED
    BY <2>3, <2>4, TimelyRefuse
<1>5. ASSUME NEW c \in Client, MakeSend(c) PROVE AllTimely'
  <2>1. UNCHANGED << board, gameOver, currentTurn, playerRegistry >>
    BY <1>5 DEF MakeSend, match, seats
  <2>2. /\ owed[c] # << >> /\ owed'[c] = Tail(owed[c])
        /\ \A d \in Client : d # c => owed'[d] = owed[d]
    BY <1>5, MakeSendIs
  <2>3. \A j \in 1 .. Len(owed'[c]) : \E i \in 1 .. Len(owed[c]) : owed'[c][j] = owed[c][i]
    <3>1. owed[c] \in Seq(Sends)
      BY DEF Base, Wired
    <3>2. \A j \in 1 .. Len(Tail(owed[c])) : \E i \in 1 .. Len(owed[c]) : owed[c][i] = Tail(owed[c])[j]
      BY <2>2, <3>1, HeadAndTail
    <3> QED
      BY <2>2, <3>2
  <2>4. ASSUME NEW d \in Client PROVE Timely(d)'
    <3>1. CASE d = c
      BY <2>1, <2>3, <3>1, TimelyKeeps DEF AllTimely
    <3>2. CASE d # c
      BY <2>1, <2>2, <3>2, TimelyKeeps DEF AllTimely
    <3> QED
      BY <3>1, <3>2
  <2> QED
    BY <2>4 DEF AllTimely
<1>6. ASSUME NEW c \in Client, Hangup(c) PROVE AllTimely'
  <2>1. UNCHANGED << board, gameOver, currentTurn, owed >> /\ owed[c] = << >>
    BY <1>6 DEF Hangup, match
  <2>2. \A d \in Client : d # c => playerRegistry'[d] = playerRegistry[d]
    <3>1. CASE Release(c)
      BY <3>1, ReleaseIs
    <3>2. CASE UNCHANGED seats
      BY <3>2 DEF seats
    <3> QED
      BY <1>6, <3>1, <3>2 DEF Hangup
  <2>3. Timely(c)'
    BY <2>1 DEF Timely
  <2>4. ASSUME NEW d \in Client, d # c PROVE Timely(d)'
    BY <2>1, <2>2, <2>4, TimelyKeeps DEF AllTimely
  <2> QED
    BY <2>3, <2>4 DEF AllTimely
<1>7. ASSUME NEW c \in Client,
             \/ Dial(c) \/ Reader(c) \/ CloseAfterInput(c) \/ Interrupt(c)
             \/ \E msg \in Lines[c] : Type(c, msg)
      PROVE  AllTimely'
  <2>1. UNCHANGED << board, gameOver, currentTurn, playerRegistry, owed >>
    BY <1>7 DEF Dial, Reader, HandleAckConnect, HandleNotifyStart, HandleResult, CloseAfterInput,
       Interrupt, Type, match, seats
  <2> QED
    BY <1>1, <2>1
<1> QED
  BY <1>2, <1>3, <1>4, <1>5, <1>6, <1>7, TimelyPlayMove, TimelyGrantConnect DEF Next, Goroutine

\* A picture that is still owed is out of date by one move at most.
THEOREM PicturesAreRecent == Spec => []LateByOne
<1>1. Init => AllTimely
  BY DEF Init, AllTimely, Timely
<1>2. Base /\ AllTimely => LateByOne
  <2> SUFFICES ASSUME Base, AllTimely, NEW c \in Client, NEW i \in 1 .. Len(owed[c]), NEW m,
                      m = owed[c][i].msg, Pictured(m)
               PROVE  Marks(m.board) + 1 >= Marks(String(board))
    BY DEF LateByOne, Pictured
  <2>1. Recent(c, m)
    BY DEF AllTimely, Timely
  <2>2. board \in Bs
    BY <2>1 DEF Recent, Base, TypeOK, Bs
  <2>3. Cells(board) = (0 .. boardRows - 1) \X (0 .. boardCols - 1)
    BY <2>2 DEF Bs, Boards, Cells
  <2>4. \A g : Marks(g) = MarksOf(g)
    BY <2>3 DEF Marks, MarksOf
  <2>5. MarksOf(m.board) \in Nat /\ MarksOf(String(board)) \in Nat
    <3>1. ASSUME NEW g PROVE MarksOf(g) \in Nat
      <4> DEFINE K == (0 .. boardRows - 1) \X (0 .. boardCols - 1)
                 S == {x \in K : g[x[1]][x[2]] # "."}
      <4>1. 0 \in Int /\ boardRows - 1 \in Int /\ boardCols - 1 \in Int
        BY GameAssumption
      <4>2. IsFiniteSet(0 .. boardRows - 1) /\ IsFiniteSet(0 .. boardCols - 1)
        BY <4>1, FS_Interval
      <4>3. IsFiniteSet(K) /\ S \subseteq K
        BY <4>2, FS_Product
      <4>4. MarksOf(g) = Cardinality(S)
        BY DEF MarksOf
      <4> HIDE DEF K, S
      <4> QED
        BY <4>3, <4>4, FS_Subset, FS_CardinalityType
    <3> QED
      BY <3>1
  <2>6. MarksOf(m.board) = MarksOf(String(board)) \/ MarksOf(m.board) + 1 = MarksOf(String(board))
    BY <2>1 DEF Recent
  <2> QED
    BY <2>4, <2>5, <2>6
<1> QED
  BY <1>1, <1>2, BaseInit, BaseStep, TimelyStep, PTL DEF Spec
=============================================================================
