-------------------------------- MODULE Identity -------------------------------
(***************************************************************************)
(* Who may call what: AuthService.login, which signs the roles it read     *)
(* from the users table into a token, JwtStrategy and the two global       *)
(* guards, JwtAuthGuard and RolesGuard, which look only at the token and   *)
(* at the @Public and @Roles metadata of the route.                        *)
(*                                                                         *)
(* No route changes a user: the rows are changed from outside, and the     *)
(* server is restarted with the same or another JWT_SECRET.  Time is in    *)
(* hours.  A token nobody signed with the secret in force is refused, so   *)
(* only the tokens that were issued are modelled.                          *)
(***************************************************************************)
EXTENDS Naturals

CONSTANTS
    NULL,
    Users,        \* users.id
    Assignments,  \* the sets of roles that operators give to a user
    Secrets,      \* the values of JWT_SECRET the server is started with
    Clients,      \* each with one login in flight and the last token it got
    TTL,          \* JWT_EXPIRES_IN, 24 by default
    MaxClock      \* bound on the hours that pass

VARIABLES
    users,      \* [Users -> SUBSET Role]: users.roles
    secret,     \* the JWT_SECRET of the running server
    clock,
    login,      \* [Clients -> the user row read, while bcrypt compares]
    token,      \* [Clients -> the token the client keeps]
    admitted,   \* the call that both guards let through just now
    held        \* history: who held which role at which hour

vars == <<users, secret, clock, login, token, admitted, held>>

Role == {"BUYER", "SELLER", "AUTHENTICATOR", "ADMIN"}

\* What a handler's decorators say of it: @Public(), @Roles(...), neither.
Public == [public |-> TRUE, roles |-> {}]
Roles(required) == [public |-> FALSE, roles |-> required]
LoggedIn == Roles({})

(* The handlers of each controller. *)

AppController == [getHello |-> Public]

HealthController == [check |-> Public]

AuthController == [ login       |-> Public,
                    me          |-> LoggedIn,
                    sellerCheck |-> Roles({"SELLER"}) ]

PassportController == [getBySerial |-> Public]

WatchesController == [ createWatch |-> Roles({"SELLER"}),
                       findAll     |-> Public,
                       findOne     |-> Public ]

TradesController == [ getTrade      |-> Roles({"BUYER", "SELLER"}),
                      createTrade   |-> Roles({"BUYER"}),
                      submitForAuth |-> Roles({"SELLER"}),
                      recordAuthenticationVerdict |-> Roles({"AUTHENTICATOR"}),
                      fundEscrow    |-> Roles({"BUYER"}),
                      markShipped   |-> Roles({"SELLER"}),
                      markDelivered |-> Public,
                      release       |-> Roles({"BUYER"}),
                      dispute       |-> Roles({"BUYER"}) ]

Controllers == { AppController, HealthController, AuthController,
                 PassportController, WatchesController, TradesController }

Route == UNION {DOMAIN controller : controller \in Controllers}

\* The metadata that the guards read with Reflector.getAllAndOverride.
Metadata(route) ==
    (CHOOSE controller \in Controllers : route \in DOMAIN controller)[route]

isPublic(route) == Metadata(route).public

RequiredRoles(route) == Metadata(route).roles

\* readAt is history: the hour in which the row was read.
UserRow == [user : Users, roles : SUBSET Role, readAt : Nat]
JwtPayload == [ sub : Users, roles : SUBSET Role, iat : Nat, exp : Nat,
                signedWith : Secrets, readAt : Nat ]
Admission == [route : Route, payload : JwtPayload \cup {NULL}, at : Nat]

IdentityTypeOK ==
    /\ users \in [Users -> SUBSET Role]
    /\ secret \in Secrets
    /\ clock \in Nat
    /\ login \in [Clients -> UserRow \cup {NULL}]
    /\ token \in [Clients -> JwtPayload \cup {NULL}]
    /\ admitted \in Admission \cup {NULL}

Holders(assignment, hour) ==
    UNION {{<<u, role, hour>> : role \in assignment[u]} : u \in Users}

Init ==
    /\ users \in [Users -> Assignments]
    /\ secret \in Secrets
    /\ clock = 0
    /\ login = [k \in Clients |-> NULL]
    /\ token = [k \in Clients |-> NULL]
    /\ admitted = NULL
    /\ held = Holders(users, 0)

-----------------------------------------------------------------------------
(* AuthService.login *)

\* usersRepository.findOne; an unknown email is a 401.
FindUser(k, u) ==
    /\ login[k] = NULL
    /\ login' = [login EXCEPT ![k] =
            [user |-> u, roles |-> users[u], readAt |-> clock]]
    /\ admitted' = NULL
    /\ UNCHANGED <<users, secret, clock, token, held>>

\* Mutant: the row itself goes into the token, without a term.
SignRow(k) ==
    /\ login[k] # NULL
    /\ token' = [token EXCEPT ![k] = login[k]]
    /\ login' = [login EXCEPT ![k] = NULL]
    /\ admitted' = NULL
    /\ UNCHANGED <<users, secret, clock, held>>

\* bcrypt.compare has resolved to true: the roles signed are those of the row
\* read before it.
Sign(k) ==
    /\ login[k] # NULL
    /\ token' = [token EXCEPT ![k] =
            [ sub |-> login[k].user, roles |-> login[k].roles,
              iat |-> clock, exp |-> clock + TTL, signedWith |-> secret,
              readAt |-> login[k].readAt ]]
    /\ login' = [login EXCEPT ![k] = NULL]
    /\ admitted' = NULL
    /\ UNCHANGED <<users, secret, clock, held>>

\* It has resolved to false: 401.
Refuse(k) ==
    /\ login[k] # NULL
    /\ login' = [login EXCEPT ![k] = NULL]
    /\ admitted' = NULL
    /\ UNCHANGED <<users, secret, clock, token, held>>

-----------------------------------------------------------------------------
(* The guards *)

\* Mutant: ignoreExpiration: true.
VerifiesForever(payload) == payload.signedWith = secret

\* JwtStrategy: secretOrKey, ignoreExpiration: false.
Verifies(payload) == payload.signedWith = secret /\ clock < payload.exp

\* JwtAuthGuard; a token sent to a public route is not looked at.
JwtAuthGuardAllows(route, bearer) ==
    isPublic(route) \/ (bearer # NULL /\ Verifies(bearer))

\* RolesGuard, with requiredRoles.some(...)
RolesGuardAllows(route, user) ==
    \/ RequiredRoles(route) = {}
    \/ user # NULL /\ RequiredRoles(route) \cap user.roles # {}

\* A call with the client's token passes both guards; a call that does not
\* changes nothing.
Call(k, route) ==
    LET user == IF isPublic(route) THEN NULL ELSE token[k] IN
    /\ JwtAuthGuardAllows(route, token[k])
    /\ RolesGuardAllows(route, user)
    /\ admitted' = [route |-> route, payload |-> user, at |-> clock]
    /\ UNCHANGED <<users, secret, clock, login, token, held>>

-----------------------------------------------------------------------------
(* Around the server *)

\* External: an operator rewrites users.roles.
Assign(u, roles) ==
    /\ users' = [users EXCEPT ![u] = roles]
    /\ held' = held \cup Holders(users', clock)
    /\ admitted' = NULL
    /\ UNCHANGED <<secret, clock, login, token>>

\* The server stops, its logins with it, and starts with a JWT_SECRET.
Restart(s) ==
    /\ secret' = s
    /\ login' = [k \in Clients |-> NULL]
    /\ admitted' = NULL
    /\ UNCHANGED <<users, clock, token, held>>

Tick ==
    /\ clock < MaxClock
    /\ clock' = clock + 1
    /\ held' = held \cup Holders(users, clock + 1)
    /\ admitted' = NULL
    /\ UNCHANGED <<users, secret, login, token>>

Next ==
    \/ \E k \in Clients :
        \/ \E u \in Users : FindUser(k, u)
        \/ Sign(k) \/ Refuse(k)
        \/ \E route \in Route : Call(k, route)
    \/ \E u \in Users, roles \in Assignments : Assign(u, roles)
    \/ \E s \in Secrets : Restart(s)
    \/ Tick

Spec == Init /\ [][Next]_vars

-----------------------------------------------------------------------------
\* Nobody asks the users table again once a token is signed, so a role that
\* was taken away goes on working; but not for ever: a call that reaches a
\* handler with @Roles comes from a user who did hold one of those roles when
\* the login read the row, and the token was signed less than TTL hours ago.
\* Restarts, with whatever secret, do not stretch that.
PowersWereHeld ==
    (admitted # NULL /\ RequiredRoles(admitted.route) # {}) =>
        LET payload == admitted.payload IN
        /\ payload # NULL
        /\ \E role \in RequiredRoles(admitted.route) :
               <<payload.sub, role, payload.readAt>> \in held
        /\ payload.readAt <= payload.iat
        /\ admitted.at < payload.iat + TTL

ASSUME IdentityAssumption ==
    /\ Assignments \subseteq SUBSET Role
    /\ TTL \in Nat \ {0} /\ MaxClock \in Nat
    /\ NULL \notin UserRow \cup JwtPayload \cup Admission
=============================================================================
