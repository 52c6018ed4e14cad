\* Two administrators, two names, three secrets, and a run of three requests.
CONSTANTS
    admin = admin
    ci = ci
    alice = alice
    bob = bob
    run = run
    Names = {admin, ci}
    Admins = {alice, bob}
    Runs = {run}
    Requests = 3
    MaxSecrets = 3
SYMMETRY Interchangeable
SPECIFICATION Spec
INVARIANTS TokensInv ToldRight AtMostOneLate
