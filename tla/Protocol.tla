------------------------------ MODULE Protocol ------------------------------
(***************************************************************************)
(* messages.rs: the two message enums of the chat protocol, identical in   *)
(* both servers.  The text a client sends is abstract: it is whatever      *)
(* identity the module that sends it gives it, so that a delivered message *)
(* can be traced to the request it came from.                              *)
(***************************************************************************)
CONSTANTS Names,    \* usernames a client may choose
          NoName    \* not a username

ASSUME NoNameAssumption == NoName \notin Names

(***************************************************************************)
(* What a line sent by a client turns into at the server's MessageReader:  *)
(* a ClientToServerMsg, or a line serde_json rejects ("Garbage"), or a     *)
(* line that fills the 1024-byte buffer without a newline and trips the    *)
(* assertion in recv ("Oversized").  name is the Join name or the SendDM   *)
(* target.                                                                 *)
(***************************************************************************)
Addressed == {"Join", "SendDM"}
Plain == {"Ping", "ListUsers", "Broadcast"}
Unreadable == {"Garbage", "Oversized"}

Line == [kind : Addressed, name : Names]
          \cup [kind : Plain \cup Unreadable, name : {NoName}]

\* ServerToClientMsg
Welcome == [kind |-> "Welcome"]
Pong == [kind |-> "Pong"]
UserList(users) == [kind |-> "UserList", users |-> users]
Message(from, message) == [kind |-> "Message", from |-> from, message |-> message]
Error(text) == [kind |-> "Error", text |-> text]

ErrorTexts == {"Server is full", "Username already taken",
               "Unexpected message received", "Connection closed",
               "Timed out waiting for Join", "Cannot send a DM to yourself",
               "User does not exist"}

ServerToClientMsg(texts) ==
  {Welcome, Pong}
    \cup [kind : {"UserList"}, users : SUBSET Names]
    \cup [kind : {"Message"}, from : Names, message : texts]
    \cup [kind : {"Error"}, text : ErrorTexts]
=============================================================================
