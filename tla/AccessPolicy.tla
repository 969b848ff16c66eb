---------------------------- MODULE AccessPolicy -----------------------------
(***************************************************************************)
(* Who a request comes from and what he may see: the authentication and    *)
(* authorisation helpers of internal/api/handlers.go that every handler    *)
(* and the hub share.  A caller is what his Authorization header and the   *)
(* claims of its token say; the test hook claimsExtractor is left out.     *)
(***************************************************************************)
CONSTANTS
    Callers,
    Header,       \* the Authorization header of each caller
    Username,     \* preferred_username of his token, or NoUser
    Subject,      \* sub of his token, or NoUser
    ClaimGroups,  \* groups of his token; a group is a record [path, name], where
                  \* path tells "/admin" from "admin"
    Users,        \* user IDs under which state is kept
    AnonymousUser,\* "_anonymous"
    NoUser,
    AuthEnabled,
    AdminGroup

Headers == {"none", "oversized", "malformed", "invalid", "valid"}

ASSUME CallerAssumption ==
    /\ Header \in [Callers -> Headers]
    /\ Username \in [Callers -> Users \cup {NoUser}]
    /\ Subject \in [Callers -> Users \cup {NoUser}]
    /\ AnonymousUser \in Users /\ NoUser \notin Users
    /\ AuthEnabled \in BOOLEAN

-----------------------------------------------------------------------------
(* groupMatches: one leading "/" is ignored on both sides.                 *)
GroupMatches(claimGroup, want) == claimGroup.name = want.name

HasRequiredGroups(userGroups, requiredGroups) ==
    \/ requiredGroups = {}
    \/ \E r \in requiredGroups, g \in userGroups : GroupMatches(g, r)

(* canAccessPolicy: everything but "public" is private.                    *)
CanAccessPolicy(visibility, authenticated, requiredGroups, userGroups) ==
    \/ visibility = "public"
    \/ authenticated /\ HasRequiredGroups(userGroups, requiredGroups)

-----------------------------------------------------------------------------
(* extractAndValidateJWT: a validator that has no keys yet answers         *)
(* ErrNotReady to every token, also to a bad one.                          *)
ExtractAndValidateJWT(c, ready) ==
    IF ~AuthEnabled \/ Header[c] \in {"none", "oversized", "malformed"} THEN "anonymous"
    ELSE IF ~ready THEN "not ready"
    ELSE IF Header[c] = "valid" THEN "authenticated" ELSE "anonymous"

Authenticated(c, ready) == ExtractAndValidateJWT(c, ready) = "authenticated"

GroupsOf(c, ready) == IF Authenticated(c, ready) THEN ClaimGroups[c] ELSE {}

(* canAccessService: the policy applied to the caller of a REST request.   *)
CanAccessService(visibility, requiredGroups, c, ready) ==
    CanAccessPolicy(visibility, Authenticated(c, ready), requiredGroups, GroupsOf(c, ready))

(* preferred_username, or sub for tokens without it.                       *)
UserOf(c) == IF Username[c] # NoUser THEN Username[c] ELSE Subject[c]

(* requireAuth: the user of the request, or NoUser when it was answered    *)
(* with 401 or 503.                                                        *)
RequireAuth(c, ready) ==
    IF ~AuthEnabled THEN AnonymousUser
    ELSE IF Authenticated(c, ready) THEN UserOf(c) ELSE NoUser

(* isAdmin and requireAdmin; the synthetic claims of a server without      *)
(* authentication have no groups.                                          *)
RequireAdmin(c, ready) ==
    /\ RequireAuth(c, ready) # NoUser
    /\ \E g \in GroupsOf(c, ready) : GroupMatches(g, AdminGroup)
=============================================================================
