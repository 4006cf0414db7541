SPECIFICATION Spec
CONSTANT Uptimes = {0, 1, 5, 30, 60, 120, 150, 180, 239, 240, 241, 242, 268, 269, 270, 284, 285, 292, 293, 298, 299, 300, 301, 302, 3600}
INVARIANT FollowsSequence
PROPERTY ShrinksOnlyAfterLong
