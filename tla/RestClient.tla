----------------------------- MODULE RestClient -----------------------------
(***************************************************************************)
(* The client of PCom-Web-Client-REST-API and the library server it talks  *)
(* to.  Every command opens a connection, sends one request with the       *)
(* session cookie and the library token it holds, and reads the answer in  *)
(* the pieces TCP delivers, up to the length the header declares or up to  *)
(* the end of the connection.  The server is external: what it does is     *)
(* taken from what the client sends and expects.                           *)
(*                                                                         *)
(* An answer is HeaderSize units of header (the first holds the cookie,    *)
(* the last the blank line) and size units of body (the first of an        *)
(* object opens it).  A cookie or a token is the number of the session it  *)
(* belongs to.                                                             *)
(***************************************************************************)
EXTENDS Integers, FiniteSets

CONSTANTS
    MaxSessions,     \* bound: sessions the server opens
    MaxBody          \* bound: units of the body of an answer

ASSUME SessionsAssumption == MaxSessions \in Nat \ {0}
ASSUME BodyAssumption == MaxBody \in Nat \ {0}

None == 0
HeaderSize == 2

VARIABLES
    cookies, token,          \* what the client holds, None when empty
    command,                 \* the command being carried out, or why there is none
    told,                    \* what the last command told the user
    request,                 \* the request the server has not answered yet
    response, got, total,    \* the answer, the units of it read, the units to read
    sessions, opened         \* the server: its live sessions, and how many it opened

client == <<cookies, token, command, told>>
server == <<sessions, opened>>
clientVars == <<cookies, token, command, told, request, response, got, total, sessions, opened>>

CommandNames == {"register", "login", "enter_library", "get_books", "get_book",
                 "add_book", "delete_book", "logout"}
NoRequest == [method |-> "none", path |-> "none", cookie |-> None, token |-> None]
NoAnswer == [body |-> "none", size |-> 0, cookie |-> None, token |-> None, ok |-> FALSE,
             declared |-> FALSE, arrives |-> 0]
Unknown == -1                \* how much to read, before the header has told it

ClientInit ==
    /\ cookies = None /\ token = None /\ command = "idle" /\ told = "nothing"
    /\ request = NoRequest /\ response = NoAnswer /\ got = 0 /\ total = Unknown
    /\ sessions = {} /\ opened = 0

-----------------------------------------------------------------------------
\* The requests: a POST carries no cookie.
compute_get_request(path) == [method |-> "GET", path |-> path, cookie |-> cookies, token |-> token]
compute_delete_request(path) == [compute_get_request(path) EXCEPT !.method = "DELETE"]
compute_post_request(path) == [compute_get_request(path) EXCEPT !.method = "POST", !.cookie = None]

\* Every command has a connection and a buffer of its own.
buffer_init == got' = 0 /\ total' = Unknown

send_server_request(name, message) ==
    /\ command = "idle" /\ command' = name
    /\ request' = message
    /\ response' = NoAnswer /\ told' = "nothing" /\ buffer_init
    /\ UNCHANGED <<cookies, token, server>>

\* register and login are refused while a session is held.
OnlyLoggedOut(name, path) ==
    IF cookies # None
    THEN /\ command = "idle" /\ told' = "refused"
         /\ UNCHANGED <<cookies, token, command, request, response, got, total, server>>
    ELSE send_server_request(name, compute_post_request(path))

register_req == OnlyLoggedOut("register", "REGISTER")
login_req == OnlyLoggedOut("login", "LOGIN")
enter_library_req == send_server_request("enter_library", compute_get_request("ENTER_LIBRARY"))
get_books_req == send_server_request("get_books", compute_get_request("BOOKS"))
get_book_req == send_server_request("get_book", compute_get_request("BOOK"))
add_book_req == send_server_request("add_book", compute_post_request("BOOKS"))
delete_book_req == send_server_request("delete_book", compute_delete_request("BOOK"))
logout_req == send_server_request("logout", compute_get_request("LOGIN"))

exit_command ==
    /\ command = "idle" /\ command' = "exited"
    /\ UNCHANGED <<cookies, token, told, request, response, got, total, server>>

-----------------------------------------------------------------------------
\* The server.  A good answer to a request, if it has one.
Good(r) ==
    CASE r.method = "POST" /\ r.path = "REGISTER" -> {"none"}
      [] r.method = "POST" /\ r.path = "LOGIN" -> IF opened < MaxSessions THEN {"none"} ELSE {}
      [] r.path = "ENTER_LIBRARY" -> IF r.cookie \in sessions THEN {"object"} ELSE {}
      [] r.method = "GET" /\ r.path = "BOOKS" -> IF r.token \in sessions THEN {"list"} ELSE {}
      [] r.method = "GET" /\ r.path = "BOOK" -> IF r.token \in sessions THEN {"object"} ELSE {}
      [] r.path \in {"BOOK", "BOOKS"} -> IF r.token \in sessions THEN {"none"} ELSE {}
      [] r.path = "LOGOUT" -> IF r.cookie \in sessions THEN {"none"} ELSE {}
      [] OTHER -> {}

\* The answer reaches the client whole, or as far as the connection lives.
Answer(body, ok, cookie, its_token) ==
    \E size \in IF body = "none" THEN {0} ELSE 1..MaxBody, declared \in BOOLEAN :
      \E arrives \in 0..(HeaderSize + size) :
        response' = [body |-> body, size |-> size, cookie |-> cookie, token |-> its_token,
                     ok |-> ok, declared |-> declared, arrives |-> arrives]

ServerAccepts ==
    /\ request # NoRequest
    /\ \E body \in Good(request) :
        LET login == request.path = "LOGIN"
            logout == request.path = "LOGOUT"
        IN  /\ Answer(body, TRUE, IF login THEN opened + 1 ELSE None,
                      IF request.path = "ENTER_LIBRARY" THEN request.cookie ELSE None)
            /\ opened' = IF login THEN opened + 1 ELSE opened
            /\ sessions' = IF login THEN sessions \cup {opened + 1}
                           ELSE IF logout THEN sessions \ {request.cookie}
                           ELSE sessions
    /\ request' = NoRequest
    /\ UNCHANGED <<client, got, total>>

\* An error is an object that says so, or a page that is not JSON at all.
ServerRefuses ==
    /\ request # NoRequest
    /\ \E body \in {"error", "page"} : Answer(body, FALSE, None, None)
    /\ request' = NoRequest
    /\ UNCHANGED <<client, got, total, server>>

SessionExpires ==
    /\ \E s \in sessions : sessions' = sessions \ {s}
    /\ UNCHANGED <<client, request, response, got, total, opened>>

-----------------------------------------------------------------------------
\* receive_from_server: pieces of the answer, and the end of the connection.
Waiting == command \in CommandNames /\ request = NoRequest
Whole == got = HeaderSize + response.size
Cut == response.arrives < HeaderSize + response.size
Enough == total # Unknown /\ got >= total

\* The blank line is among the units read; and the header declares a length.
buffer_find(units) == units >= HeaderSize
buffer_find_insensitive == response.declared
TotalRead(units) ==
    IF buffer_find(units) /\ buffer_find_insensitive THEN HeaderSize + response.size ELSE Unknown

ReadPiece_OneRead ==
    /\ Waiting /\ ~Enough
    /\ \E units \in got + 1..response.arrives :
         got' = units /\ total' = IF TotalRead(units) = Unknown THEN Unknown ELSE units
    /\ UNCHANGED <<client, request, response, server>>
ReadPiece ==
    /\ Waiting /\ ~Enough
    /\ \E units \in got + 1..response.arrives : got' = units /\ total' = TotalRead(units)
    /\ UNCHANGED <<client, request, response, server>>

\* The server closes after an answer whose length it did not declare.
ReadEnd ==
    /\ Waiting /\ ~Enough /\ got = response.arrives
    /\ Cut \/ ~response.declared
    /\ total' = got
    /\ UNCHANGED <<client, request, response, got, server>>

-----------------------------------------------------------------------------
\* What the command makes of the text it has read.
Begun == got > HeaderSize
basic_extract_json_response == Begun /\ response.body \in {"error", "object"}

Tell(text) == told' = text /\ command' = "idle"
Abort == told' = "nothing" /\ command' = "aborted"      \* an exception main does not catch
HoldOn == UNCHANGED <<cookies, token>>

\* An object is parsed, and an object cut short does not parse.
TellError == IF Whole THEN Tell("error") ELSE Abort

ReportPlain ==
    /\ command \in {"register", "add_book", "delete_book"}
    /\ IF basic_extract_json_response THEN TellError ELSE Tell("success")
    /\ HoldOn

ReportLogin ==
    /\ command = "login"
    /\ \/ basic_extract_json_response /\ TellError /\ HoldOn
       \/ /\ ~basic_extract_json_response /\ response.cookie # None /\ got > 0
          /\ cookies' = response.cookie /\ token' = token /\ Tell("success")
       \/ /\ ~basic_extract_json_response /\ (response.cookie = None \/ got = 0)
          /\ Abort /\ HoldOn

\* json::parse of no text at all throws too.
ReportObject ==
    /\ command \in {"enter_library", "get_book", "get_books"}
    /\ LET listed == command = "get_books" /\ Begun /\ response.body = "list"
           parsed == (basic_extract_json_response \/ listed) /\ Whole
       IN  /\ IF ~parsed THEN Abort
              ELSE Tell(IF response.body = "error" THEN "error" ELSE "success")
           /\ token' = IF parsed /\ command = "enter_library" /\ response.body = "object"
                       THEN response.token ELSE token
           /\ cookies' = cookies

ReportLogout_KeepsToken ==
    /\ command = "logout"
    /\ IF basic_extract_json_response THEN TellError /\ HoldOn
       ELSE Tell("success") /\ cookies' = None /\ token' = token
ReportLogout ==
    /\ command = "logout"
    /\ IF basic_extract_json_response THEN TellError /\ HoldOn
       ELSE Tell("success") /\ cookies' = None /\ token' = None

Report ==
    /\ Waiting /\ Enough
    /\ ReportPlain \/ ReportLogin \/ ReportObject \/ ReportLogout
    /\ UNCHANGED <<request, response, got, total, server>>

-----------------------------------------------------------------------------
Commands ==
    \/ register_req \/ login_req \/ enter_library_req \/ get_books_req \/ get_book_req
    \/ add_book_req \/ delete_book_req \/ logout_req \/ exit_command

Server == ServerAccepts \/ ServerRefuses

ClientNext == Commands \/ Server \/ SessionExpires \/ ReadPiece \/ ReadEnd \/ Report

ClientSpec == ClientInit /\ [][ClientNext]_clientVars

-----------------------------------------------------------------------------
\* The token belongs to the session of the cookie: a user who logs out and
\* another who logs in afterwards never share one, whatever was lost or expired
\* in between.
TokenOfThisSession == token # None => token = cookies

\* However TCP cuts an answer into pieces, the command that looks at it has all
\* of it, unless the connection broke.
AnswerReadWhole == (Waiting /\ Enough /\ ~Cut) => Whole
=============================================================================
