SPECIFICATION Spec
CONSTANTS
    Skills = {files, mail}
    OAuthSkills = {mail}
    Calls = {c1, c2, c3}
    Boot = Boot
    None = None
    MaxRestarts = 1
SYMMETRY Symmetry
CHECK_DEADLOCK FALSE
INVARIANTS
    SkillsAgree
