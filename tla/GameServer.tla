----------------------------- MODULE GameServer -----------------------------
(***************************************************************************)
(* The networked game of hw1: the server, one goroutine per connection     *)
(* around one lock, and the clients that come and go.                      *)
(*                                                                         *)
(* A handler's critical section is one action; what it sends after         *)
(* unlocking is a list of sends its goroutine still owes, made one by one  *)
(* in actions of their own, and the goroutine reads its next message when  *)
(* the list is empty.  A connection carries messages in order, both ways.  *)
(* A client is one invocation of the program: it connects once, its        *)
(* address is its id, and it never comes back.                             *)
(***************************************************************************)
EXTENDS ConnectM, Sequences

CONSTANTS
    Client,               \* the invocations of the client program
    Wants,                \* [Client -> Piece]: the piece on the command line
    Nil,                  \* no board, no piece, no connection
    boardRows, boardCols, boardM,   \* the server's command line
    initialCol,           \* [Client -> Int]: the column on the command line
    Lines,                \* [Client -> the lines its user may type]
    MaxLines,             \* bound: lines typed at one client
    Crashers              \* the clients that may be interrupted

Piece == {"X", "O"}

ASSUME GameAssumption ==
    /\ Wants \in [Client -> Piece]
    /\ boardRows \in Nat \ {0} /\ boardCols \in Nat \ {0} /\ boardM \in Nat \ {0}
    /\ initialCol \in [Client -> Int] /\ DOMAIN Lines = Client
    /\ \A c \in Client : \A msg \in Lines[c] :
          msg.type = "cs_send_move" => msg.column \in Int
    /\ MaxLines \in Nat /\ Crashers \subseteq Client
    /\ Nil \notin Client \cup Piece
    /\ Nil \notin Boards(boardRows, boardCols, boardM)

VARIABLES
    \* the server, under gameMu
    board,           \* the game's board, Nil before the first connect
    playerRegistry,  \* [Client -> Piece or Nil]
    takenPieces,     \* [Piece -> BOOLEAN]
    playerConns,     \* [Piece -> Client or Nil]
    firstPlayer,     \* the piece that connected first
    currentTurn,     \* the piece that must move next
    gameOver,
    \* the goroutine of each connection
    owed,            \* [Client -> Seq([to, msg])]: sends not yet made
    \* the clients and their connections
    link,            \* [Client -> "none", "open", "closed" (by the client), "gone"]
    toServer,        \* [Client -> Seq(message)]
    toClient,        \* [Client -> Seq(message)]
    firstMoveAcked,  \* [Client -> BOOLEAN]
    lines,           \* [Client -> 0..MaxLines]: lines typed so far
    claims           \* history: [Client -> SUBSET Piece] granted to it

seats  == << playerRegistry, takenPieces, playerConns >>
match  == << board, firstPlayer, currentTurn, gameOver >>
wires  == << link, toServer, toClient >>
vars   == << seats, match, owed, wires, firstMoveAcked, lines, claims >>

Init ==
    /\ board = Nil /\ firstPlayer = Nil /\ currentTurn = Nil /\ gameOver = FALSE
    /\ playerRegistry = [c \in Client |-> Nil]
    /\ takenPieces = [p \in Piece |-> FALSE]
    /\ playerConns = [p \in Piece |-> Nil]
    /\ owed = [c \in Client |-> << >>]
    /\ link = [c \in Client |-> "none"]
    /\ toServer = [c \in Client |-> << >>] /\ toClient = [c \in Client |-> << >>]
    /\ firstMoveAcked = [c \in Client |-> FALSE]
    /\ lines = [c \in Client |-> 0]
    /\ claims = [c \in Client |-> {}]

-----------------------------------------------------------------------------
(* Messages *)

SendConnect(player) == [type |-> "cs_send_connect", player |-> player]
SendMove(column)    == [type |-> "cs_send_move", column |-> column]

AckConnect(success)  == [type |-> "sc_ack_connect", success |-> success]
NotifyStart(opponent, firstTurn, picture) ==
    [type |-> "sc_notify_start", opponent |-> opponent, firstTurn |-> firstTurn,
     board |-> picture]
AckMove(status, next, picture) ==
    [type |-> "sc_ack_move", status |-> status, next |-> next, board |-> picture]
NotifyWin(winner, picture) ==
    [type |-> "sc_notify_win", winner |-> winner, board |-> picture]
AckInvalid(reason)   == [type |-> "sc_ack_invalid", reason |-> reason]

Send(to, msg) == << [to |-> to, msg |-> msg] >>

\* Mutant: the first connection that is there is the only one told.
Broadcast_First(msg) ==
    LET tell(p) == IF playerConns[p] = Nil THEN << >> ELSE Send(playerConns[p], msg)
    IN  IF playerConns["X"] # Nil THEN tell("X") ELSE tell("O")

\* The message goes to the players that are connected, X first.
Broadcast(msg) ==
    LET tell(p) == IF playerConns[p] = Nil THEN << >> ELSE Send(playerConns[p], msg)
    IN  tell("X") \o tell("O")

-----------------------------------------------------------------------------
(* The server *)

\* Mutant: a goroutine handles its next message while it still owes sends.
Reads_Eager(c, type) ==
    /\ link[c] \in {"open", "closed"} /\ toServer[c] # << >>
    /\ Head(toServer[c]).type = type

\* The goroutine of connection c is at scanner.Scan() and this message is next.
Reads(c, type) ==
    /\ link[c] \in {"open", "closed"} /\ toServer[c] # << >>
    /\ owed[c] = << >>
    /\ Head(toServer[c]).type = type

Consume(c) == toServer' = [toServer EXCEPT ![c] = Tail(@)]

\* Its handler leaves the lock and owes these sends.
Owes(c, sends) == owed' = [owed EXCEPT ![c] = @ \o sends]

\* handleSendConnect, refused: an unknown piece, or one that is taken.
RefuseConnect(c) ==
    LET piece == Head(toServer[c]).player IN
    /\ Reads(c, "cs_send_connect")
    /\ piece \in Piece => takenPieces[piece]
    /\ Consume(c) /\ Owes(c, Send(c, AckConnect(FALSE)))
    /\ UNCHANGED << seats, match, link, toClient, firstMoveAcked, lines, claims >>

\* Mutant: the turn is left for the second connect to set.
Open_NoTurn(piece) ==
    /\ board' = NewBoard(boardRows, boardCols, boardM)
    /\ firstPlayer' = piece /\ currentTurn' = Nil

\* The first connect ever creates the board; its piece may move at once.
Open(piece) ==
    /\ board' = NewBoard(boardRows, boardCols, boardM)
    /\ firstPlayer' = piece /\ currentTurn' = piece

(***************************************************************************)
(* handleSendConnect, granted.  Whenever both pieces are taken after it,   *)
(* both players are sent the board as it is now.                           *)
(***************************************************************************)
GrantConnect(c) ==
    LET piece == Head(toServer[c]).player IN
    /\ Reads(c, "cs_send_connect")
    /\ piece \in Piece /\ ~takenPieces[piece]
    /\ playerRegistry' = [playerRegistry EXCEPT ![c] = piece]
    /\ takenPieces' = [takenPieces EXCEPT ![piece] = TRUE]
    /\ playerConns' = [playerConns EXCEPT ![piece] = c]
    /\ IF board = Nil THEN Open(piece) ELSE UNCHANGED << board, firstPlayer, currentTurn >>
    /\ Consume(c)
    /\ Owes(c, Send(c, AckConnect(TRUE)) \o
         (IF takenPieces'["X"] /\ takenPieces'["O"]
          THEN Send(playerConns'["X"], NotifyStart("O", currentTurn', String(board')))
                 \o Send(playerConns'["O"], NotifyStart("X", currentTurn', String(board')))
          ELSE << >>))
    /\ claims' = [claims EXCEPT ![c] = @ \cup {piece}]
    /\ UNCHANGED << gameOver, link, toClient, firstMoveAcked, lines >>

pieceToPlayer(piece) == IF piece = "X" THEN Player1 ELSE Player2

Other(piece) == IF piece = "X" THEN "O" ELSE "X"

\* The reasons of MakeMove as the protocol words them.
Reason(err) == IF err = "column out of bounds" THEN "column out of range" ELSE err

\* Mutant: a move after the end is not refused.
Refusal_LateMove(c, column) ==
    IF playerRegistry[c] = Nil THEN "client not registered"
    ELSE IF playerRegistry[c] # currentTurn THEN "it is not your turn"
    ELSE Reason(MoveError(board, column - 1, pieceToPlayer(playerRegistry[c])))

\* Mutant: any registered player may move.
Refusal_AnyTurn(c, column) ==
    IF playerRegistry[c] = Nil THEN "client not registered"
    ELSE IF gameOver THEN "game is already over"
    ELSE Reason(MoveError(board, column - 1, pieceToPlayer(playerRegistry[c])))

\* Why handleSendMove refuses a move, "nil" when it does not.
Refusal(c, column) ==
    IF playerRegistry[c] = Nil THEN "client not registered"
    ELSE IF gameOver THEN "game is already over"
    ELSE IF playerRegistry[c] # currentTurn THEN "it is not your turn"
    ELSE Reason(MoveError(board, column - 1, pieceToPlayer(playerRegistry[c])))

RefuseMove(c) ==
    LET column == Head(toServer[c]).column IN
    /\ Reads(c, "cs_send_move") /\ Refusal(c, column) # "nil"
    /\ Consume(c) /\ Owes(c, Send(c, AckInvalid(Refusal(c, column))))
    /\ UNCHANGED << seats, match, link, toClient, firstMoveAcked, lines, claims >>

(***************************************************************************)
(* handleSendMove, played: the move, then the verdict, then the turn.  The *)
(* connections and the picture of the board are read before the unlock.    *)
(***************************************************************************)
PlayMove(c) ==
    LET column == Head(toServer[c]).column
        piece  == playerRegistry[c]
    IN
    /\ Reads(c, "cs_send_move") /\ Refusal(c, column) = "nil"
    /\ board' = MakeMove(board, column - 1, pieceToPlayer(piece))
    /\ gameOver' = (CheckWin(board') \/ IsFull(board'))
    /\ currentTurn' = IF gameOver' THEN currentTurn ELSE Other(currentTurn)
    /\ Owes(c, Broadcast(
         IF CheckWin(board') THEN NotifyWin(piece, String(board'))
         ELSE IF IsFull(board') THEN AckMove("DRAW", Nil, String(board'))
         ELSE AckMove("OK", currentTurn', String(board'))))
    /\ Consume(c)
    /\ UNCHANGED << seats, firstPlayer, link, toClient, firstMoveAcked, lines, claims >>

\* sendMessage: a write to a connection the client has closed is lost.
MakeSend(c) ==
    LET s == Head(owed[c]) IN
    /\ owed[c] # << >>
    /\ owed' = [owed EXCEPT ![c] = Tail(@)]
    /\ toClient' = IF link[s.to] = "open"
                   THEN [toClient EXCEPT ![s.to] = Append(@, s.msg)] ELSE toClient
    /\ UNCHANGED << seats, match, link, toServer, firstMoveAcked, lines, claims >>

\* Mutant: the slot is freed and the id stays registered.
Release_KeepId(c) ==
    \E p \in Piece :
        /\ playerConns[p] = c
        /\ playerConns' = [playerConns EXCEPT ![p] = Nil]
        /\ takenPieces' = [takenPieces EXCEPT ![p] = FALSE]
        /\ UNCHANGED playerRegistry

\* Mutant: a closed connection frees nothing.
Release_Never(c) == UNCHANGED seats

(***************************************************************************)
(* The slot of a closed connection is released, with every id registered   *)
(* for it.  The loop over the map stops at the first piece it finds.       *)
(***************************************************************************)
Release(c) ==
    \E p \in Piece :
        /\ playerConns[p] = c
        /\ playerConns' = [playerConns EXCEPT ![p] = Nil]
        /\ takenPieces' = [takenPieces EXCEPT ![p] = FALSE]
        /\ playerRegistry' = [i \in Client |->
                                IF playerRegistry[i] = p THEN Nil ELSE playerRegistry[i]]

\* handleMessages has returned: what the client sent before it left is handled.
Hangup(c) ==
    /\ link[c] = "closed" /\ toServer[c] = << >> /\ owed[c] = << >>
    /\ link' = [link EXCEPT ![c] = "gone"]
    /\ IF \E p \in Piece : playerConns[p] = c THEN Release(c) ELSE UNCHANGED seats
    /\ UNCHANGED << match, owed, toServer, toClient, firstMoveAcked, lines, claims >>

-----------------------------------------------------------------------------
(* The client *)

\* main: dial and announce the piece.
Dial(c) ==
    /\ link[c] = "none"
    /\ link' = [link EXCEPT ![c] = "open"]
    /\ toServer' = [toServer EXCEPT ![c] = << SendConnect(Wants[c]) >>]
    /\ UNCHANGED << seats, match, owed, toClient, firstMoveAcked, lines, claims >>

\* parseAndSend: a line of the terminal that makes sense is sent on.
Type(c, msg) ==
    /\ link[c] = "open" /\ lines[c] < MaxLines
    /\ lines' = [lines EXCEPT ![c] = @ + 1]
    /\ toServer' = [toServer EXCEPT ![c] = Append(@, msg)]
    /\ UNCHANGED << seats, match, owed, link, toClient, firstMoveAcked, claims >>

\* The process ends, or closes its connection, which ends it: what it has not
\* read is lost with its memory; what it has sent still arrives.
Leave(c) ==
    /\ link' = [link EXCEPT ![c] = "closed"]
    /\ toClient' = [toClient EXCEPT ![c] = << >>]
    /\ firstMoveAcked' = [firstMoveAcked EXCEPT ![c] = FALSE]
    /\ lines' = [lines EXCEPT ![c] = 0]

\* The next message from the server.
Gets(c, type) ==
    link[c] = "open" /\ toClient[c] # << >> /\ Head(toClient[c]).type = type

Taken(c) == toClient' = [toClient EXCEPT ![c] = Tail(@)]

\* On success the column of the command line is played; on failure, exit.
HandleAckConnect(c) ==
    /\ Gets(c, "sc_ack_connect")
    /\ IF Head(toClient[c]).success
       THEN /\ toServer' = [toServer EXCEPT ![c] = Append(@, SendMove(initialCol[c]))]
            /\ Taken(c) /\ UNCHANGED << link, firstMoveAcked, lines >>
       ELSE Leave(c) /\ UNCHANGED toServer
    /\ UNCHANGED << seats, match, owed, claims >>

HandleNotifyStart(c) ==
    /\ Gets(c, "sc_notify_start")
    /\ Taken(c)
    /\ UNCHANGED << seats, match, owed, link, toServer, firstMoveAcked, lines, claims >>

\* The messages that end the client: a win, a draw, a move after the end, and
\* sc_notify_error, which this server never sends.
Final(msg) ==
    \/ msg.type \in {"sc_notify_win", "sc_notify_error"}
    \/ msg.type = "sc_ack_move" /\ msg.status = "DRAW"
    \/ msg.type = "sc_ack_invalid" /\ msg.reason = "game is already over"

\* Once or more often: the channel is closed.
signalFirstMoveAcked(c) == firstMoveAcked' = [firstMoveAcked EXCEPT ![c] = TRUE]

\* handleAckMove, handleNotifyWin, handleAckInvalid and handleNotifyError: each
\* of the first three takes the message for the answer to the opening move.
HandleResult(c) ==
    /\ \E t \in {"sc_ack_move", "sc_notify_win", "sc_ack_invalid", "sc_notify_error"} :
          Gets(c, t)
    /\ IF Final(Head(toClient[c])) THEN Leave(c)
       ELSE /\ signalFirstMoveAcked(c)
            /\ Taken(c) /\ UNCHANGED << link, lines >>
    /\ UNCHANGED << seats, match, owed, toServer, claims >>

\* The terminal is at its end and the opening move counts as answered.
CloseAfterInput(c) ==
    /\ link[c] = "open" /\ firstMoveAcked[c]
    /\ Leave(c)
    /\ UNCHANGED << seats, match, owed, toServer, claims >>

\* The client is interrupted; the last messages it sent may be lost with it.
Interrupt(c) ==
    /\ c \in Crashers /\ link[c] = "open"
    /\ Leave(c)
    /\ \E k \in 0 .. Len(toServer[c]) :
          toServer' = [toServer EXCEPT ![c] = SubSeq(@, 1, k)]
    /\ UNCHANGED << seats, match, owed, claims >>

-----------------------------------------------------------------------------
Goroutine(c) ==
    \/ RefuseConnect(c) \/ GrantConnect(c) \/ RefuseMove(c) \/ PlayMove(c)
    \/ MakeSend(c) \/ Hangup(c)

Reader(c) == HandleAckConnect(c) \/ HandleNotifyStart(c) \/ HandleResult(c)

Next ==
    \E c \in Client :
        \/ Goroutine(c)
        \/ Dial(c) \/ Reader(c) \/ CloseAfterInput(c) \/ Interrupt(c)
        \/ \E msg \in Lines[c] : Type(c, msg)

Spec == Init /\ [][Next]_vars
-----------------------------------------------------------------------------
\* The variables have their types; once there is a board it is someone's turn.
TypeOK ==
    /\ playerRegistry \in [Client -> Piece \cup {Nil}]
    /\ takenPieces \in [Piece -> BOOLEAN]
    /\ playerConns \in [Piece -> Client \cup {Nil}]
    /\ board \in Boards(boardRows, boardCols, boardM) \cup {Nil}
    /\ {firstPlayer, currentTurn} \subseteq IF board = Nil THEN {Nil} ELSE Piece
    /\ gameOver \in BOOLEAN
    /\ link \in [Client -> {"none", "open", "closed", "gone"}]
    /\ lines \in [Client -> 0..MaxLines]
    /\ firstMoveAcked \in [Client -> BOOLEAN]

(***************************************************************************)
(* The registry, the taken pieces and the connections are three maps that  *)
(* one lock keeps in step, through refused, repeated and dropped connects: *)
(* a piece is taken exactly while it has a connection, and whoever may     *)
(* move for a piece is the one who is told of its moves.                   *)
(***************************************************************************)
SeatsAgree ==
    /\ \A p \in Piece : takenPieces[p] <=> playerConns[p] # Nil
    /\ \A c \in Client :
          playerRegistry[c] # Nil => playerConns[playerRegistry[c]] = c

(***************************************************************************)
(* "Release the player slot when this connection closes so the same piece  *)
(* can reconnect": a connection that is gone holds no piece, unless it was *)
(* granted both, of which it then keeps one.                               *)
(***************************************************************************)
SlotReleased ==
    \A p \in Piece, c \in Client :
        playerConns[p] = c /\ link[c] = "gone"
          => claims[c] = Piece /\ playerConns[Other(p)] # c

(***************************************************************************)
(* The pieces move in turn, whichever clients play them and however often  *)
(* they are replaced: the pieces on the board tell whose turn it is, or    *)
(* who made the last move.  The first to move is whoever connected first   *)
(* (server/main.go:35), not always X: see XMovesFirst.                     *)
(***************************************************************************)
TurnsAlternate ==
    board # Nil =>
      LET first  == Pieces(board, pieceToPlayer(firstPlayer))
          second == Pieces(board, pieceToPlayer(Other(firstPlayer)))
      IN  IF (currentTurn = firstPlayer) <=> gameOver THEN first = second + 1
                                                      ELSE first = second

InFlight == (UNION {{owed[c][i].msg : i \in 1 .. Len(owed[c])} : c \in Client})
              \cup (UNION {{toClient[c][i] : i \in 1 .. Len(toClient[c])} : c \in Client})

(***************************************************************************)
(* An announced end is the end: as long as the news of a win or a draw is  *)
(* under way, the picture it carries is the board, on which the winner,    *)
(* and nobody else, has a line, or nobody has and no cell is left.         *)
(***************************************************************************)
EndIsFinal ==
    \A msg \in InFlight :
        /\ msg.type = "sc_notify_win" =>
             /\ gameOver /\ msg.board = String(board)
             /\ HasLine(board, pieceToPlayer(msg.winner))
             /\ ~HasLine(board, pieceToPlayer(Other(msg.winner)))
        /\ msg.type = "sc_ack_move" /\ msg.status = "DRAW" =>
             /\ gameOver /\ msg.board = String(board)
             /\ Pieces(board, Empty) = 0
             /\ ~HasLine(board, Player1) /\ ~HasLine(board, Player2)

Marks(picture) ==
    Cardinality({x \in Cells(board) : picture[x[1]][x[2]] # "."})

(***************************************************************************)
(* Sends happen after the unlock, so the picture of an earlier move may be *)
(* sent after that of a later one.  It is then out of date by one move     *)
(* only: the move after that one is read by the very goroutine that still  *)
(* owes the send, which makes its sends before it reads on.                *)
(***************************************************************************)
LateByOne ==
    \A c \in Client : \A i \in 1 .. Len(owed[c]) :
        LET msg == owed[c][i].msg IN
        msg.type \in {"sc_notify_start", "sc_ack_move", "sc_notify_win"}
          => Marks(msg.board) + 1 >= Marks(String(board))

\* No goroutine of the server and no reader of a client has anything to do.
Quiet ==
    \A c \in Client :
        owed[c] = << >> /\ toServer[c] = << >> /\ toClient[c] = << >> /\ link[c] # "closed"

(***************************************************************************)
(* Nobody is left waiting.  When all that was sent has been dealt with,    *)
(* every client that is still there has had its opening move answered (so  *)
(* that <-firstMoveAcked lets its terminal goroutine end), and if the game *)
(* is over there is none: players, latecomers and clients that were not    *)
(* yet registered when it ended have all been told, and have ended.        *)
(***************************************************************************)
NobodyWaits ==
    Quiet => \A c \in Client : link[c] = "open" => firstMoveAcked[c] /\ ~gameOver

-----------------------------------------------------------------------------
(***************************************************************************)
(* "Which player moves first (always X per Connect-M rules)"               *)
(* (wire_protocol.md:113): there are never more O's on the board than X's. *)
(***************************************************************************)
XMovesFirst ==
    board # Nil => Pieces(board, pieceToPlayer("O")) <= Pieces(board, pieceToPlayer("X"))

(***************************************************************************)
(* "Release the player slot when this connection closes so the same piece  *)
(* can reconnect" (server/main.go:452): a connection that is gone holds no *)
(* piece, however many it was granted.                                     *)
(***************************************************************************)
SeatsFreed == \A p \in Piece, c \in Client : playerConns[p] = c => link[c] # "gone"
=============================================================================
