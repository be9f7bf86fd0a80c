---------------------------- MODULE LanguageServer ----------------------------
(***************************************************************************)
(* marie-lsp: the message loop of mrs-lsp (server.rs, document.rs) between *)
(* an editor and the analysis of a document, over the connection of the    *)
(* lsp-server crate.  Messages of either side arrive in the order they are *)
(* sent; everything else is the choice of the editor, who edits while      *)
(* questions are under way, closes what is not open, breaks off, or dies.  *)
(* `phase' is where main is: Starting and Greeted in the two halves of the *)
(* handshake, Running in the loop, Leaving between shutdown and exit,      *)
(* Returned when the threads are joined, then Stopped or Failed.           *)
(***************************************************************************)
EXTENDS Encoding

CONSTANTS
  Uris,            \* the files of the editor
  Texts,           \* what may be in them
  Findings(_),     \* the analysis of a text: the byte spans with a finding
  Offers,          \* what the editor may offer as encodings
  ProbeTexts,      \* further texts, to look for places in
  MaxSends         \* bound: messages the editor sends between the handshake and shutdown

ASSUME TextsAssumption ==
  /\ Uris # {}
  /\ Texts \cup ProbeTexts \subseteq Seq(Character)
  /\ MaxSends \in Nat

\* What the lexer and the parser find is a part of the text, from a character
\* to another.
ASSUME FindingsAssumption ==
  \A text \in Texts : \A span \in Findings(text) :
    \E i \in 1 .. Len(text) + 1, j \in 1 .. Len(text) + 1 :
      span = << ByteOf(text, i), ByteOf(text, j) >>

VARIABLES
  phase,
  encoding,        \* Server::encoding
  documents,       \* Server::documents
  toServer,        \* the pipe to the server, and what its reader thread holds
  toEditor,        \* what the writer thread holds, and the pipe from the server
  exitRead,        \* the reader thread has ended at an exit notification
  editor,          \* Offline, Greeting, Ready, Leaving, Gone, or Dead: reads no more
  agreed,          \* the encoding the editor was told, and speaks
  buffers,         \* what the editor has open
  shown,           \* the squiggles it shows
  asked,           \* the requests it has sent, by id
  answers,         \* the responses it has received
  sends

server == << phase, encoding, documents >>
client == << editor, agreed, buffers, shown, asked, answers, sends >>
serverVars == << server, toServer, toEditor, exitRead, client >>

NoDocument == [open |-> FALSE]
Document(text, version) == [open |-> TRUE, text |-> text, version |-> version]

-----------------------------------------------------------------------------
(* The server.                                                             *)

\* A message is received, and what it calls for is sent.
Receives(kind) == toServer # << >> /\ ~exitRead /\ Head(toServer).kind = kind
Takes(replies) ==
  /\ toServer' = Tail(toServer)
  /\ exitRead' = (Head(toServer).kind = "Exit")
  /\ toEditor' = toEditor \o replies
  /\ UNCHANGED client

Response(result) ==
  [kind |-> "Response", id |-> Head(toServer).id, result |-> result]
Null == [answer |-> "Null"]
Error == [answer |-> "Error"]

\* publish: every finding, in the positions of the negotiated encoding.
Published(uri, document) ==
  [kind |-> "Diagnostics", uri |-> uri,
   ranges |-> IF ~document.open THEN {}
              ELSE { [k \in 1 .. 2 |-> Position(document.text, span[k], encoding)] :
                       span \in Findings(document.text) }]

\* initialize_start and initialize_finish.
Initialize ==
  /\ phase = "Starting"
  /\ Receives("Initialize")
  /\ encoding' = Negotiate(Head(toServer).params.offered)
  /\ Takes(<< Response([answer |-> "Encoding", encoding |-> encoding']) >>)
  /\ phase' = "Greeted"
  /\ UNCHANGED documents

Initialized ==
  /\ phase = "Greeted"
  /\ Receives("Initialized")
  /\ Takes(<< >>)
  /\ phase' = "Running"
  /\ UNCHANGED << encoding, documents >>

\* The documents of an opened or a closed file.
Sets(uri, document) ==
  /\ documents' = [documents EXCEPT ![uri] = document]
  /\ Takes(<< Published(uri, document) >>)
  /\ UNCHANGED << phase, encoding >>

Handles(kind) == phase = "Running" /\ Receives(kind)

DidOpen ==
  /\ Handles("DidOpen")
  /\ LET message == Head(toServer)
     IN  Sets(message.uri, Document(message.text, message.version))

\* A faulty change that takes the first of several.
CurrentFirst(changes) == Head(changes)

\* The last change carries the whole document.
Current(changes) == Last(changes)

\* A change of a file that is not open opens it.
DidChange ==
  /\ Handles("DidChange")
  /\ LET message == Head(toServer)
     IN  IF message.changes = << >>
         THEN Takes(<< >>) /\ UNCHANGED server
         ELSE Sets(message.uri, Document(Current(message.changes), message.version))

\* A faulty close that only forgets the file.
DidCloseUnpublished ==
  /\ Handles("DidClose")
  /\ documents' = [documents EXCEPT ![Head(toServer).uri] = NoDocument]
  /\ Takes(<< >>)
  /\ UNCHANGED << phase, encoding >>

\* Also of a file that is not open.
DidClose ==
  /\ Handles("DidClose")
  /\ Sets(Head(toServer).uri, NoDocument)

\* Any other notification, an exit out of turn included, and any response.
Ignore ==
  /\ Handles("Other") \/ Handles("Exit")
  /\ Takes(<< >>)
  /\ UNCHANGED server

\* dispatch: every feature reads the one document, at a place or as a whole.
Answer(request) ==
  LET document == documents[request.uri]
  IN  IF request.method = "Unparsable" THEN Error
      ELSE IF request.method = "Unknown" \/ ~document.open THEN Null
      ELSE [answer |-> "Feature", text |-> document.text,
            offset |-> Offset(document.text, request.position, encoding)]

\* A faulty dispatch that says nothing of a file it does not know.
DispatchSilent ==
  /\ Handles("Request")
  /\ Takes(IF Answer(Head(toServer).params) = Null THEN << >>
           ELSE << Response(Answer(Head(toServer).params)) >>)
  /\ UNCHANGED server

Dispatch ==
  /\ Handles("Request")
  /\ Takes(<< Response(Answer(Head(toServer).params)) >>)
  /\ UNCHANGED server

\* Connection::handle_shutdown answers, and waits for exit.
Shutdown ==
  /\ Handles("Shutdown")
  /\ Takes(<< Response(Null) >>)
  /\ phase' = "Leaving"
  /\ UNCHANGED << encoding, documents >>

ExitInTurn ==
  /\ phase = "Leaving"
  /\ Receives("Exit")
  /\ Takes(<< >>)
  /\ phase' = "Returned"
  /\ UNCHANGED << encoding, documents >>

Fails == phase' = "Failed" /\ UNCHANGED << encoding, documents >>

\* Any other message while it waits for exit.
Unexpected ==
  /\ phase = "Leaving"
  /\ toServer # << >> /\ ~Receives("Exit")
  /\ Takes(<< >>)
  /\ Fails

\* A send fails once the writer thread has ended at a pipe nobody reads.
SendFails ==
  /\ editor = "Dead" /\ toEditor # << >>
  /\ \E kind \in {"DidOpen", "DidChange", "DidClose", "Request"} : Handles(kind)
  /\ Takes(<< >>)
  /\ Fails

\* The reader thread has ended: at exit, or where the editor closed the pipe.
Disconnected == exitRead \/ (editor \in {"Gone", "Dead"} /\ toServer = << >>)

\* The loop ends with its messages; the handshake and the wait for exit fail,
\* and so does the wait after 30 seconds.
EndOfMessages ==
  /\ Disconnected
  /\ phase \in {"Starting", "Greeted", "Running", "Leaving"}
  /\ IF phase = "Running"
     THEN phase' = "Returned" /\ UNCHANGED << encoding, documents >>
     ELSE Fails
  /\ UNCHANGED << toServer, toEditor, exitRead, client >>

WaitedForExit ==
  /\ phase = "Leaving"
  /\ toServer = << >>
  /\ Fails
  /\ UNCHANGED << toServer, toEditor, exitRead, client >>

\* A faulty end of main that holds on to the sender while it joins: the writer
\* thread has no end then.
JoinHoldingSender ==
  /\ phase = "Returned"
  /\ toEditor # << >> /\ editor = "Dead"
  /\ phase' = "Failed"
  /\ UNCHANGED << encoding, documents, toServer, toEditor, exitRead, client >>

\* io_threads.join, after run has dropped its connection: the writer thread
\* ends when it has written everything, or when nobody reads it.
Join ==
  /\ phase = "Returned"
  /\ Disconnected
  /\ toEditor = << >> \/ editor = "Dead"
  /\ phase' = IF toEditor = << >> THEN "Stopped" ELSE "Failed"
  /\ UNCHANGED << encoding, documents, toServer, toEditor, exitRead, client >>

Server ==
  \/ Initialize \/ Initialized
  \/ DidOpen \/ DidChange \/ DidClose \/ Ignore \/ Dispatch
  \/ Shutdown \/ ExitInTurn \/ Unexpected
  \/ SendFails \/ EndOfMessages \/ WaitedForExit \/ Join

-----------------------------------------------------------------------------
(* The editor.                                                             *)

Sends(message) ==
  /\ toServer' = Append(toServer, message)
  /\ UNCHANGED << server, toEditor, exitRead, agreed, shown, answers >>
Asks(message) ==
  /\ Sends([kind |-> message.kind, id |-> Len(asked) + 1, params |-> message])
  /\ asked' = Append(asked, message)

Counts == sends < MaxSends /\ sends' = sends + 1

Greet ==
  /\ editor = "Offline"
  /\ editor' = "Greeting"
  /\ \E offered \in Offers : Asks([kind |-> "Initialize", offered |-> offered])
  /\ UNCHANGED << buffers, sends >>

\* It speaks when it has been answered, and may go on when it is leaving.
Talks == editor \in {"Ready", "Leaving"} /\ Counts /\ UNCHANGED editor

Open(uri, text) ==
  /\ Talks
  /\ buffers' = [buffers EXCEPT ![uri] = Document(text, sends)]
  /\ Sends([kind |-> "DidOpen", uri |-> uri, text |-> text, version |-> sends])
  /\ UNCHANGED asked

Edit(uri, changes) ==
  /\ Talks
  /\ buffers' = IF changes = << >> THEN buffers
                ELSE [buffers EXCEPT ![uri] = Document(Last(changes), sends)]
  /\ Sends([kind |-> "DidChange", uri |-> uri, changes |-> changes, version |-> sends])
  /\ UNCHANGED asked

Close(uri) ==
  /\ Talks
  /\ buffers' = [buffers EXCEPT ![uri] = NoDocument]
  /\ Sends([kind |-> "DidClose", uri |-> uri])
  /\ UNCHANGED asked

\* About the i-th character of a file, or of what it takes to be there.
Ask(uri, method, i) ==
  /\ Talks
  /\ i <= IF buffers[uri].open THEN Len(buffers[uri].text) + 1 ELSE 1
  /\ Asks([kind |-> "Request", method |-> method, uri |-> uri,
           buffer |-> buffers[uri], at |-> i,
           position |-> IF buffers[uri].open
                        THEN ClientPosition(buffers[uri].text, i, agreed)
                        ELSE [line |-> 0, character |-> 0]])
  /\ UNCHANGED buffers

Mention ==
  /\ Talks
  /\ Sends([kind |-> "Other"])
  /\ UNCHANGED << buffers, asked >>

Leave ==
  /\ editor = "Ready"
  /\ editor' = "Leaving"
  /\ Asks([kind |-> "Shutdown"])
  /\ UNCHANGED << buffers, sends >>

\* With its exit the editor closes the pipe; or it only does that, or it dies.
Exit ==
  /\ editor \in {"Ready", "Leaving"}
  /\ editor' = "Gone"
  /\ Sends([kind |-> "Exit"])
  /\ UNCHANGED << buffers, asked, sends >>

Break ==
  /\ editor \notin {"Gone", "Dead"}
  /\ editor' \in {"Gone", "Dead"}
  /\ UNCHANGED << server, toServer, toEditor, exitRead,
                  agreed, buffers, shown, asked, answers, sends >>

\* What has come from the server is taken in, in its order.
Hears(kind) ==
  /\ editor # "Dead" /\ phase # "Failed"
  /\ toEditor # << >> /\ Head(toEditor).kind = kind
  /\ toEditor' = Tail(toEditor)
  /\ UNCHANGED << server, toServer, exitRead, buffers, asked, sends >>

HearDiagnostics ==
  /\ Hears("Diagnostics")
  /\ shown' = [shown EXCEPT ![Head(toEditor).uri] = Head(toEditor).ranges]
  /\ UNCHANGED << editor, agreed, answers >>

HearResponse ==
  /\ Hears("Response")
  /\ answers' = Append(answers, Head(toEditor))
  /\ UNCHANGED << agreed, editor, shown >>
  /\ Head(toEditor).result.answer # "Encoding"

\* The handshake's answer names the encoding; the editor says it is ready.
HearWelcome ==
  /\ editor # "Dead" /\ phase # "Failed"
  /\ toEditor # << >> /\ Head(toEditor).kind = "Response"
  /\ Head(toEditor).result.answer = "Encoding"
  /\ toEditor' = Tail(toEditor)
  /\ answers' = Append(answers, Head(toEditor))
  /\ agreed' = Head(toEditor).result.encoding
  /\ IF editor = "Greeting"
     THEN editor' = "Ready" /\ toServer' = Append(toServer, [kind |-> "Initialized"])
     ELSE UNCHANGED << editor, toServer >>
  /\ UNCHANGED << server, exitRead, buffers, shown, asked, sends >>

Changes == { << >> } \cup { <<t>> : t \in Texts } \cup { c \in Texts \X Texts : c[1] # c[2] }

Speak ==
  \/ Greet \/ Mention \/ Leave \/ Exit \/ Break
  \/ \E uri \in Uris :
       \/ \E text \in Texts : Open(uri, text)
       \/ \E changes \in Changes : Edit(uri, changes)
       \/ Close(uri)
       \/ \E i \in 1 .. Max({ Len(t) : t \in Texts }) + 1 : Ask(uri, "Feature", i)
  \/ \E method \in {"Unknown", "Unparsable"} : Ask(CHOOSE uri \in Uris : TRUE, method, 1)

Hear == HearDiagnostics \/ HearResponse \/ HearWelcome

-----------------------------------------------------------------------------
(* The specification.                                                      *)

ServerInit ==
  /\ phase = "Starting"
  /\ encoding = "Utf16"
  /\ documents = [uri \in Uris |-> NoDocument]
  /\ toServer = << >> /\ toEditor = << >> /\ exitRead = FALSE
  /\ editor = "Offline"
  /\ agreed = "Utf16"
  /\ buffers = [uri \in Uris |-> NoDocument]
  /\ shown = [uri \in Uris |-> {}]
  /\ asked = << >> /\ answers = << >>
  /\ sends = 0

ServerNext == Server \/ Speak \/ Hear

\* The processes run: of the server and of an editor that is not dead, who
\* reads what it is sent, one goes on while either can.  Nothing makes the
\* editor speak.
ServerSpec ==
  ServerInit /\ [][ServerNext]_serverVars /\ WF_serverVars(Server \/ Hear)

-----------------------------------------------------------------------------
(* Properties.                                                             *)

\* The answers come in the order of the requests, and each is about the text
\* and the place the editor had before it when it asked, whatever was edited,
\* opened or closed before and since; of a file it had not opened there is
\* nothing to say.
AnswersCurrentText ==
  \A k \in DOMAIN answers :
    /\ answers[k].id = k
    /\ asked[k].kind = "Request" /\ asked[k].method = "Feature" =>
         answers[k].result =
           IF asked[k].buffer.open
           THEN [answer |-> "Feature", text |-> asked[k].buffer.text,
                 offset |-> ByteOf(asked[k].buffer.text, asked[k].at)]
           ELSE Null

\* When all that was sent has arrived, an open file shows the findings of the
\* text in it, at the characters they are about, and a closed one none.
SquigglesCurrent ==
  phase = "Running" /\ toServer = << >> /\ toEditor = << >> =>
    \A uri \in Uris :
      LET text == buffers[uri].text
          places == { p \in (1 .. Len(text) + 1) \X (1 .. Len(text) + 1) :
                        << ByteOf(text, p[1]), ByteOf(text, p[2]) >> \in Findings(text) }
      IN  shown[uri] =
            IF ~buffers[uri].open THEN {}
            ELSE { << ClientPosition(text, p[1], agreed),
                      ClientPosition(text, p[2], agreed) >> : p \in places }

\* Whatever the editor does, there comes a time when every request has been
\* answered, also those sent right before it left or closed the pipe; and when
\* the editor has said exit, has closed the pipe or is gone, the process has
\* ended.  Requests go unanswered when the editor dies, goes on talking after
\* shutdown, or does not come to its exit.
Settles ==
  []<>( /\ Len(answers) = Len(asked) \/ phase = "Failed" \/ editor = "Dead"
        /\ editor \in {"Gone", "Dead"} => phase \in {"Stopped", "Failed"} )

-----------------------------------------------------------------------------
(* Places, in the encoding the handshake has settled, of many more texts   *)
(* than are edited above.                                                  *)

Negotiated == phase = "Running" /\ editor = "Ready" /\ sends = 0

\* A place in a text is the same place on both sides, whatever characters of
\* however many bytes, units and lines come before it.
PositionsAgree ==
  Negotiated => \A text \in ProbeTexts :
    \A i \in 1 .. Len(text) + 1 :
      LET there == ClientPosition(text, i, agreed)
      IN  /\ Position(text, ByteOf(text, i), encoding) = there
          /\ Offset(text, there, encoding) = ByteOf(text, i)

\* Any position at all, of an older text or inside a surrogate pair, comes to
\* a character of its line or the end of it, never before the column, and one
\* below the text comes to its end.  A range is a span of the text.
PositionsClamped ==
  Negotiated => \A text \in ProbeTexts :
    \A line \in 0 .. LineCount(text), character \in 0 .. Length(text) + 1 :
      LET position == [line |-> line, character |-> character]
          offset == OffsetClamped(text, position, encoding)
          span == SpanClamped(text, << position, [line |-> 0, character |-> 1] >>, encoding)
      IN  /\ \E i \in 1 .. Len(text) + 1 :
               /\ offset = ByteOf(text, i)
               /\ line < LineCount(text) =>
                    LET there == ClientPosition(text, i, agreed)
                    IN  /\ there.line = line
                        /\ there.character < character =>
                             offset = LineEnd(text, line)
                        /\ there.character > 0 =>
                             ClientPosition(text, i - 1, agreed).character < character
          /\ line = LineCount(text) => offset = Length(text)
          /\ 0 <= span[1] /\ span[1] <= span[2] /\ span[2] <= Length(text)

\* The tokens a client decodes begin where the spans begin and are as long,
\* whatever lines lie between them, there is none for an empty span, and no
\* distance, which is unsigned, falls below zero.
TokensDecode ==
  Negotiated => \A text \in ProbeTexts :
    LET tokens == SemanticTokens(text, CharacterSpans(text), encoding)
        places == TokenPlaces(tokens)
    IN  /\ Len(tokens) = VisibleUpTo(text, Len(text))
        /\ \A i \in { i \in DOMAIN text : text[i] # Newline } :
             LET n == VisibleUpTo(text, i)
             IN  /\ places[n] = ClientPosition(text, i, agreed)
                 /\ tokens[n].length = Width(agreed, text[i])
                 /\ tokens[n].delta.line >= 0 /\ tokens[n].delta.start >= 0
=============================================================================
