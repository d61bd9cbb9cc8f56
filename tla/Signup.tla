------------------------------- MODULE Signup -------------------------------
(***************************************************************************)
(* The signup service: the Flask routes of signup/server.py over the user *)
(* table of signup/signup.py (UserRepository).                             *)
(*                                                                         *)
(*   /signup/<username>/<address>  validates the address, refuses it if    *)
(*       the table already holds it, and mails a link to                   *)
(*       /activation/<payload>, payload being {username, address} signed   *)
(*       with the server's secret key;                                     *)
(*   /activation/<payload>  verifies the signature and inserts a row       *)
(*       (username, address).                                              *)
(*                                                                         *)
(* app.run(threaded=config.threaded) serves each request on its own        *)
(* thread.  A signup request reads the table (contains) and only later     *)
(* mails its link; the model splits it there, so requests of other threads *)
(* may run in between.  An activation reads nothing before its insert and  *)
(* is one step.  A link stays valid forever and may be opened any number   *)
(* of times; a client may also send a payload the server never signed.     *)
(***************************************************************************)
EXTENDS Naturals, Sequences, FiniteSets

CONSTANTS
    Threads,        \* request-handling threads
    Usernames,
    Addresses,
    ValidAddresses, \* the addresses emailRegex matches
    MaxRows         \* bound on the rows of the user table

ASSUME ValidAddresses \subseteq Addresses

VARIABLES
    users,    \* the user table: a sequence of rows (the id is the position)
    mailbox,  \* activation links mailed so far: signed {username, address}
    pc,       \* pc[t]: where thread t is
    req       \* req[t]: the username and address of t's signup request

vars == <<users, mailbox, pc, req>>

Row == [username : Usernames, address : Addresses]
Payload == [username : Usernames, address : Addresses, signed : BOOLEAN]

-----------------------------------------------------------------------------
(* isValidEmailAddress                                                     *)
IsValidEmailAddress(a) == a \in ValidAddresses

(* UserRepository.contains: some row has the address.                      *)
Contains(tbl, a) == \E i \in DOMAIN tbl : tbl[i].address = a

(* Mutant: put() with the two columns swapped.                            *)
PutSwapped(tbl, u, a) == Append(tbl, [username |-> a, address |-> u])

(* UserRepository.put: a new row, committed.                               *)
Put(tbl, u, a) == Append(tbl, [username |-> u, address |-> a])

(* generateActivationStem: the payload signed with app.secret_key.         *)
GenerateActivationStem(u, a) == [username |-> u, address |-> a, signed |-> TRUE]

(* Mutant: a serializer that does not verify the signature.               *)
LoadsUnchecked(p) == TRUE

(* urlSerializer.loads accepts exactly the payloads signed with the key.   *)
Loads(p) == p.signed

-----------------------------------------------------------------------------
Init ==
    /\ users = <<>>
    /\ mailbox = {}
    /\ pc = [t \in Threads |-> "idle"]
    /\ req = [t \in Threads |-> [username |-> CHOOSE u \in Usernames : TRUE,
                                 address |-> CHOOSE a \in Addresses : TRUE]]

(* signup(): the address check and the contains() query.  An invalid or    *)
(* known address is answered with an error and changes nothing (a stutter  *)
(* step, left out); otherwise the thread goes on to mail the link.         *)
SignupCheck(t, u, a) ==
    /\ pc[t] = "idle"
    /\ IsValidEmailAddress(a) /\ ~Contains(users, a)
    /\ pc' = [pc EXCEPT ![t] = "sending"]
    /\ req' = [req EXCEPT ![t] = [username |-> u, address |-> a]]
    /\ UNCHANGED <<users, mailbox>>

(* sendVerification and sendMessage: the mail with the link is delivered, *)
(* or mail.send raises and nothing is sent.                                *)
SendVerification(mb, link) == {mb \cup {link}, mb}

(* signup(), continued: the activation URL is built and sendVerification   *)
(* mails it; an SMTP error escapes the route (500) and no link is sent.    *)
SignupSend(t) ==
    /\ pc[t] = "sending"
    /\ pc' = [pc EXCEPT ![t] = "idle"]
    /\ mailbox' \in SendVerification(mailbox, GenerateActivationStem(req[t].username, req[t].address))
    /\ UNCHANGED <<users, req>>

(* activate_user(payload): a payload that fails the signature check is     *)
(* refused (abort(401), which is not imported and raises NameError, so a   *)
(* 500); a signed one is inserted with put().                              *)
ActivateUser(t, p) ==
    /\ pc[t] = "idle"
    /\ IF Loads(p)
       THEN /\ Len(users) < MaxRows
            /\ users' = Put(users, p.username, p.address)
       ELSE UNCHANGED users
    /\ UNCHANGED <<mailbox, pc, req>>

(* The payloads a client can send: a link it was mailed, or one it made.   *)
ClientPayloads == mailbox \cup [username : Usernames, address : Addresses, signed : {FALSE}]

Next ==
    \/ \E t \in Threads, u \in Usernames, a \in Addresses : SignupCheck(t, u, a)
    \/ \E t \in Threads : SignupSend(t)
    \/ \E t \in Threads, p \in ClientPayloads : ActivateUser(t, p)

Spec == Init /\ [][Next]_vars

-----------------------------------------------------------------------------
TypeOK ==
    /\ users \in Seq(Row)
    /\ mailbox \subseteq Payload
    /\ pc \in [Threads -> {"idle", "sending"}]
    /\ req \in [Threads -> Row]

(* Every row of the user table was activated by a link the service mailed  *)
(* to that address for that username: the signed payload binds the two,    *)
(* so no client can register an address it cannot read mail at.           *)
RowsFromMailedLinks ==
    \A i \in DOMAIN users :
        [username |-> users[i].username, address |-> users[i].address, signed |-> TRUE]
            \in mailbox

(* An address is registered at most once: signup() refuses an address the *)
(* table holds ("Username is already registered.").                        *)
UniqueAddress ==
    \A i, j \in DOMAIN users : i # j => users[i].address # users[j].address

=============================================================================
